---- MODULE Spec2Model ----
(***************************************************************************)
(* NAVI-CA change analyzer: object parser, app catalog matcher, change     *)
(* history store with overlap detection, risk scorer and the Analyze       *)
(* handler of the UI.                                                      *)
(*                                                                         *)
(* Text is modelled as a sequence of one-character strings, so that the    *)
(* regular expression, strip(), upper(), split and fnmatch are computed    *)
(* character by character as the Python code computes them.                *)
(***************************************************************************)
EXTENDS Integers, Sequences, FiniteSets, TLC

VARIABLES
    store,            \* rows of table `changes`, in rowid order
    now,              \* the wall clock, in days
    latest_findings,  \* latest_findings["data"]
    status,           \* status.text
    views,            \* kpis, tables, chart and risk map of the UI
    runs,             \* number of Analyze clicks handled so far
    ui,               \* the input widgets as they were at the last click
    pcs,              \* positions of the interleaved runs (two sessions)
    fn_in,            \* argument of the pure function under test
    fn_out            \* its result

vars == <<store, now, latest_findings, status, views, runs, ui, pcs, fn_in, fn_out>>

-----------------------------------------------------------------------------
(* Bounds of the model *)

MaxLines == 3
MaxRows == 2
MaxObjs == 3
MaxApps == 2
MaxRuns == 3
MaxDay == 2

-----------------------------------------------------------------------------
(* Python values *)

\* Python's None, where a text value is expected
None == <<"<None>">>

\* a JSON number, given by its digits
JsonInt(digits) == <<"<int>">> \o digits

is_int(v) == v # <<>> /\ v[1] = "<int>"

\* bool(v): None, '' and 0 are falsy
Truthy(v) == v # None /\ v # <<>> /\ v # JsonInt(<<"0">>)

Min(S) == CHOOSE x \in S : \A y \in S : x <= y
Max(S) == CHOOSE x \in S : \A y \in S : x >= y

\* d.get(k, default) on a dict modelled as a function
Get(d, k, default) == IF k \in DOMAIN d THEN d[k] ELSE default

\* a or b
Or(a, b) == IF Truthy(a) THEN a ELSE b

LowerChars == <<"a","b","c","d","e","f","g","h","i","j","k","l","m",
                "n","o","p","q","r","s","t","u","v","w","x","y","z">>
UpperChars == <<"A","B","C","D","E","F","G","H","I","J","K","L","M",
                "N","O","P","Q","R","S","T","U","V","W","X","Y","Z">>
Digits == {"0","1","2","3","4","5","6","7","8","9"}

LowerSet == {LowerChars[i] : i \in 1..26}
UpperSet == {UpperChars[i] : i \in 1..26}
UpperOf  == [c \in LowerSet |-> UpperChars[CHOOSE i \in 1..26 : LowerChars[i] = c]]

upper_char(c) == IF c \in LowerSet THEN UpperOf[c] ELSE c

\* str.upper()
upper(s) == [i \in 1..Len(s) |-> upper_char(s[i])]

IsSpace(c) == c \in {" ", "\t", "\n"}

\* str.strip()
strip(s) ==
    LET idx == {i \in 1..Len(s) : ~IsSpace(s[i])}
    IN  IF idx = {} THEN <<>> ELSE SubSeq(s, Min(idx), Max(idx))

\* length of the longest run of characters satisfying P that starts at s[i]
RunLen(s, i, P(_)) ==
    LET stop == {t \in i..Len(s) : ~P(s[t])}
    IN  IF i > Len(s) THEN 0
        ELSE IF stop = {} THEN Len(s) - i + 1
        ELSE Min(stop) - i

\* str.splitlines(), for the line break "\n"
RECURSIVE splitlines(_)
splitlines(s) ==
    IF s = <<>> THEN <<>>
    ELSE LET nl == {i \in 1..Len(s) : s[i] = "\n"}
         IN  IF nl = {} THEN <<s>>
             ELSE <<SubSeq(s, 1, Min(nl) - 1)>>
                      \o splitlines(SubSeq(s, Min(nl) + 1, Len(s)))

\* re.split(r"[\t\s]+", s)
RECURSIVE re_split_ws(_)
re_split_ws(s) ==
    LET sp == {i \in 1..Len(s) : IsSpace(s[i])}
    IN  IF sp = {} THEN <<s>>
        ELSE LET k == Min(sp)
                 w == RunLen(s, k, IsSpace)
             IN  <<SubSeq(s, 1, k - 1)>> \o re_split_ws(SubSeq(s, k + w, Len(s)))

-----------------------------------------------------------------------------
(* navica/core/parser.py *)

R3TR == <<"R","3","T","R">>
LIMU == <<"L","I","M","U">>
PROG == <<"P","R","O","G">>
TABL == <<"T","A","B","L">>
CMOD == <<"C","M","O","D">>
DTEL == <<"D","T","E","L">>

KNOWN_TYPES ==
    { PROG, <<"R","E","P","S">>, <<"R","E","P","T">>,
      CMOD, <<"S","M","O","D">>, <<"E","N","H","O">>, <<"E","N","H","S">>,
      <<"S","P","O","T">>,
      <<"C","L","A","S">>, <<"I","N","T","F">>, <<"F","U","G","R">>,
      <<"F","U","N","C">>,
      TABL, <<"V","I","E","W">>, DTEL, <<"D","O","M","A">>,
      <<"T","T","Y","P">>, <<"D","D","L","S">> }

\* [A-Z0-9_] under re.IGNORECASE
IsWordCh(c) == upper_char(c) \in UpperSet \/ c \in Digits \/ c = "_"

\* [A-Z0-9_/\\\-~><=] under re.IGNORECASE
IsNameCh(c) == IsWordCh(c) \/ c \in {"/", "\\", "-", "~", ">", "<", "="}

\* _ABAP_LINE_RE matched at position i of s:
\*   (R3TR|LIMU) \s+ [A-Z0-9_]{3,5} \s+ [A-Z0-9_/\\\-~><=]+
abap_line_match_at(s, i) ==
    LET w1 == RunLen(s, i + 4, IsSpace)
        t0 == i + 4 + w1
        tl == RunLen(s, t0, IsWordCh)
        w2 == RunLen(s, t0 + tl, IsSpace)
        n0 == t0 + tl + w2
        nl == RunLen(s, n0, IsNameCh)
    IN  IF /\ i + 3 <= Len(s)
           /\ upper(SubSeq(s, i, i + 3)) \in {R3TR, LIMU}
           /\ w1 >= 1
           /\ tl >= 3 /\ tl <= 5
           /\ w2 >= 1
           /\ nl >= 1
        THEN [matched   |-> TRUE,
              obj_class |-> SubSeq(s, i, i + 3),
              obj_type  |-> SubSeq(s, t0, t0 + tl - 1),
              obj_name  |-> SubSeq(s, n0, n0 + nl - 1)]
        ELSE [matched |-> FALSE]

\* _ABAP_LINE_RE.search(s): the leftmost match
abap_line_search(s) ==
    LET hits == {i \in 1..Len(s) : abap_line_match_at(s, i).matched}
    IN  IF hits = {} THEN [matched |-> FALSE]
        ELSE abap_line_match_at(s, Min(hits))

\* (s or "").strip() raises AttributeError: s is truthy and no str
norm_raises(s) == Truthy(s) /\ is_int(s)

norm(s) == IF ~Truthy(s) THEN <<>> ELSE upper(strip(s))

\* _make_obj raises in one of its _norm calls
make_obj_raises(obj_class, obj_type, obj_name, package, component) ==
    \/ norm_raises(obj_class)
    \/ norm_raises(obj_type)
    \/ norm_raises(obj_name)
    \/ norm_raises(package)
    \/ norm_raises(component)

make_obj(obj_class, obj_type, obj_name, raw, package, component) ==
    [obj_class      |-> norm(obj_class),
     obj_type       |-> norm(obj_type),
     obj_name       |-> norm(obj_name),
     subtype        |-> None,
     package        |-> IF Truthy(package) THEN norm(package) ELSE None,
     component      |-> IF Truthy(component) THEN norm(component) ELSE None,
     raw            |-> raw,
     normalized_key |-> norm(obj_class) \o <<":">> \o norm(obj_type)
                            \o <<":">> \o norm(obj_name)]

\* raw.strip() if raw else ""
raw_text(raw) == IF Truthy(raw) THEN strip(raw) ELSE <<>>

\* dict_set changed to keep the first value of a key (found.setdefault)
dict_set_keep_first(found, o) ==
    IF \E i \in 1..Len(found) : found[i].normalized_key = o.normalized_key
    THEN found
    ELSE Append(found, o)

\* found[o["normalized_key"]] = o on an insertion-ordered dict, kept as the
\* sequence of its values: an existing key keeps its position
dict_set(found, o) ==
    IF \E i \in 1..Len(found) : found[i].normalized_key = o.normalized_key
    THEN [i \in 1..Len(found) |->
             IF found[i].normalized_key = o.normalized_key THEN o ELSE found[i]]
    ELSE Append(found, o)

\* one iteration of the loop over text.splitlines()
parse_line(line, found) ==
    LET ln    == strip(line)
        m     == abap_line_search(ln)
        parts == re_split_ws(ln)
    IN  IF ln = <<>> THEN found
        ELSE IF m.matched
        THEN dict_set(found, make_obj(m.obj_class, m.obj_type, m.obj_name,
                                      raw_text(ln), None, None))
        ELSE IF Len(parts) >= 3 /\ norm(parts[1]) \in {R3TR, LIMU}
        THEN dict_set(found, make_obj(parts[1], norm(parts[2]), norm(parts[3]),
                                      raw_text(ln), None, None))
        ELSE IF Len(parts) >= 2 /\ norm(parts[1]) \in KNOWN_TYPES
        THEN dict_set(found, make_obj(R3TR, parts[1], parts[2],
                                      raw_text(ln), None, None))
        ELSE found

RECURSIVE parse_lines(_, _)
parse_lines(lines, found) ==
    IF lines = <<>> THEN found
    ELSE parse_lines(Tail(lines), parse_line(Head(lines), found))

parse_abap_object_text(text) ==
    IF text = <<>> \/ strip(text) = <<>> THEN <<>>
    ELSE parse_lines(splitlines(text), <<>>)

\* one row of csv.DictReader: a dict from the header's columns to cells
csv_row(row, found) ==
    LET obj_class == Get(row, "obj_class", R3TR)
        obj_type  == Or(Get(row, "obj_type", None),
                        Or(Get(row, "object_type", None),
                           Or(Get(row, "type", None), <<>>)))
        obj_name  == Or(Get(row, "obj_name", None),
                        Or(Get(row, "object_name", None),
                           Or(Get(row, "name", None), <<>>)))
        package   == Or(Get(row, "package", None),
                        Or(Get(row, "devclass", None), None))
        component == Or(Get(row, "component", None), None)
    IN  IF ~Truthy(obj_type) \/ ~Truthy(obj_name) THEN found
        ELSE dict_set(found, make_obj(obj_class, obj_type, obj_name,
                                      [json_dumps |-> row], package, component))

RECURSIVE csv_rows(_, _)
csv_rows(rows, found) ==
    IF rows = <<>> THEN found
    ELSE csv_rows(Tail(rows), csv_row(Head(rows), found))

\* raw_bytes is given as the rows csv.DictReader yields for it
load_objects_from_csv(rows) ==
    IF rows = <<>> THEN <<>> ELSE csv_rows(rows, <<>>)

\* str(v) of a JSON value: 'None' for null, the digits of a number, the text
\* itself
str(v) ==
    IF v = None THEN <<"N","o","n","e">>
    ELSE IF is_int(v) THEN Tail(v)
    ELSE v

\* one entry of the JSON array: [ok |-> TRUE, value |-> found] after the
\* loop body, [ok |-> FALSE, exc |-> e] when it raises
json_entry(o0, found) ==
    IF ~o0.is_dict THEN [ok |-> TRUE, value |-> found]
    ELSE
    LET d         == o0.fields
        obj_class == Get(d, "obj_class", R3TR)
        obj_type  == Or(Get(d, "obj_type", None),
                        Or(Get(d, "object_type", None), <<>>))
        obj_name  == Or(Get(d, "obj_name", None),
                        Or(Get(d, "object_name", None), <<>>))
        package   == Get(d, "package", None)
        component == Get(d, "component", None)
        raw       == Get(d, "raw", <<>>)
    IN  IF ~Truthy(obj_type) \/ ~Truthy(obj_name)
        THEN [ok |-> TRUE, value |-> found]
        ELSE IF make_obj_raises(obj_class, obj_type, obj_name, package, component)
        THEN [ok |-> FALSE, exc |-> "AttributeError"]
        ELSE [ok |-> TRUE,
              value |-> dict_set(found, make_obj(obj_class, obj_type, obj_name,
                                     raw_text(str(raw)), package, component))]

\* the loop over the entries: the first entry that raises ends the call
RECURSIVE json_entries(_, _)
json_entries(objects, found) ==
    IF objects = <<>> THEN [ok |-> TRUE, value |-> found]
    ELSE IF ~json_entry(Head(objects), found).ok
    THEN json_entry(Head(objects), found)
    ELSE json_entries(Tail(objects), json_entry(Head(objects), found).value)

\* raw_bytes is given as what json.loads makes of it:
\*   [kind |-> "empty"]                       no bytes
\*   [kind |-> "invalid"]                     json.loads raises
\*   [kind |-> "dict", fields |-> f]          a JSON object
\*   [kind |-> "list", items |-> s]           a JSON array
\* The result is [ok |-> TRUE, value |-> objects] or [ok |-> FALSE, exc |-> e].
load_objects_from_json(data) ==
    IF data.kind = "empty" THEN [ok |-> TRUE, value |-> <<>>]
    ELSE IF data.kind = "invalid" THEN [ok |-> FALSE, exc |-> "JSONDecodeError"]
    ELSE IF data.kind = "list"
    THEN \* data.get(...) on a list
         [ok |-> FALSE, exc |-> "AttributeError"]
    ELSE json_entries(Get(data.fields, "objects", <<>>), <<>>)

-----------------------------------------------------------------------------
(* The parser applied to bounded inputs *)

SeqsUpTo(S, n) == UNION {[1..k -> S] : k \in 0..n}

RECURSIVE join_lines(_)
join_lines(ls) ==
    IF ls = <<>> THEN <<>>
    ELSE IF Len(ls) = 1 THEN ls[1]
    ELSE ls[1] \o <<"\n">> \o join_lines(Tail(ls))

ZA == <<"Z","A">>
ZB == <<"Z","B">>

TextLinePool ==
    { <<"R","3","T","R"," ","P","R","O","G"," ","Z","A">>,
      <<"r","3","t","r"," ","p","r","o","g"," ","z","a">>,
      <<"R","3","T","R"," ","T","A","B","L"," ","Z","B">>,
      <<"L","I","M","U"," ","A","B"," ","Z","A">>,
      <<"P","R","O","G"," ","Z","A">>,
      <<"j","u","n","k"," ","l","i","n","e">>,
      <<" "," ">>,
      <<"x","R","3","T","R","\t","D","T","E","L"," "," ","Y","A",".","b"," ">>,
      <<"R","3","T","R"," ","A",":","B"," ","C">>,
      <<"R","3","T","R"," ","A"," ","B",":","C">> }

CsvRowPoolA ==
    { [obj_type |-> PROG, obj_name |-> ZA, package |-> <<"z","p","k","g">>],
      [obj_type |-> <<"p","r","o","g">>, obj_name |-> <<"z","a">>, package |-> None],
      [obj_type |-> TABL, obj_name |-> <<>>, package |-> <<"x">>],
      [obj_type |-> TABL, obj_name |-> ZB, package |-> <<>>] }

CsvRowPoolB ==
    { [obj_class |-> <<"l","i","m","u">>, type |-> PROG, name |-> ZA],
      [obj_class |-> LIMU, type |-> PROG, name |-> <<" ","z","a">>],
      [obj_class |-> <<>>, type |-> CMOD, name |-> ZB],
      [obj_class |-> R3TR, type |-> <<>>, name |-> ZB] }

JsonItemPool ==
    { [is_dict |-> TRUE,
       fields |-> [obj_type |-> PROG, obj_name |-> ZA, raw |-> <<"a">>]],
      [is_dict |-> TRUE,
       fields |-> [obj_class |-> <<"r","3","t","r"," ">>,
                   object_type |-> <<"p","r","o","g">>,
                   object_name |-> <<"z","a">>]],
      [is_dict |-> TRUE, fields |-> [obj_type |-> TABL, obj_name |-> ZB]],
      [is_dict |-> TRUE, fields |-> [obj_type |-> PROG, obj_name |-> ZA, raw |-> None]],
      [is_dict |-> TRUE,
       fields |-> [obj_type |-> TABL, obj_name |-> ZB, raw |-> JsonInt(<<"7">>)]],
      [is_dict |-> TRUE, fields |-> [obj_type |-> TABL, obj_name |-> None]],
      [is_dict |-> TRUE,
       fields |-> [obj_type |-> JsonInt(<<"0">>), object_type |-> PROG,
                   obj_name |-> ZA, package |-> JsonInt(<<"0">>)]],
      [is_dict |-> TRUE, fields |-> [obj_type |-> JsonInt(<<"7">>), obj_name |-> ZA]],
      [is_dict |-> TRUE, fields |-> [obj_type |-> JsonInt(<<"7">>)]],
      [is_dict |-> FALSE] }

TextInputs == {join_lines(ls) : ls \in SeqsUpTo(TextLinePool, MaxLines)}
CsvInputs  == SeqsUpTo(CsvRowPoolA, MaxRows) \cup SeqsUpTo(CsvRowPoolB, MaxRows)
JsonInputs ==
    {[kind |-> "empty"], [kind |-> "invalid"], [kind |-> "dict", fields |-> [version |-> <<"1">>]]}
    \cup {[kind |-> "list", items |-> s] : s \in SeqsUpTo(JsonItemPool, MaxRows)}
    \cup {[kind |-> "dict", fields |-> [objects |-> s]] :
             s \in SeqsUpTo(JsonItemPool, MaxRows)}

ParseInputs ==
    {[mode |-> "text", text |-> t] : t \in TextInputs}
    \cup {[mode |-> "csv", rows |-> r] : r \in CsvInputs}
    \cup {[mode |-> "json", json |-> j] : j \in JsonInputs}

NotCalled == [done |-> FALSE]

\* build_document: the widgets and the store right after construction (the
\* history file starts empty)
NoFindings == [has |-> FALSE]

InitialViews ==
    [kpis         |-> [shown |-> FALSE],
     top_tbl      |-> <<>>,
     by_type      |-> <<>>,
     apps_tbl     |-> <<>>,
     overlaps_tbl |-> <<>>,
     graph        |-> [title |-> "Risk Map (spider/network)", renderers |-> <<>>]]

InitialUi ==
    [change_id |-> "CHG-LOCAL-001", overlap_days |-> 30,
     file_csv |-> [has |-> FALSE], file_json |-> [has |-> FALSE], paste |-> <<>>]

SysIdle ==
    /\ store = <<>>
    /\ now = 0
    /\ latest_findings = NoFindings
    /\ status = [kind |-> "ready"]
    /\ views = InitialViews
    /\ runs = 0
    /\ ui = InitialUi
    /\ pcs = <<>>

SysVars == <<store, now, latest_findings, status, views, runs, ui, pcs>>

InitParse ==
    /\ SysIdle
    /\ fn_in \in ParseInputs
    /\ fn_out = NotCalled

CallParseText ==
    /\ fn_in.mode = "text" /\ ~fn_out.done
    /\ fn_out' = [done |-> TRUE, ok |-> TRUE,
                  value |-> parse_abap_object_text(fn_in.text)]
    /\ UNCHANGED <<SysVars, fn_in>>

CallLoadCsv ==
    /\ fn_in.mode = "csv" /\ ~fn_out.done
    /\ fn_out' = [done |-> TRUE, ok |-> TRUE,
                  value |-> load_objects_from_csv(fn_in.rows)]
    /\ UNCHANGED <<SysVars, fn_in>>

CallLoadJson ==
    /\ fn_in.mode = "json" /\ ~fn_out.done
    /\ fn_out' = [done |-> TRUE] @@ load_objects_from_json(fn_in.json)
    /\ UNCHANGED <<SysVars, fn_in>>

NextParse == CallParseText \/ CallLoadCsv \/ CallLoadJson

SpecParse == InitParse /\ [][NextParse]_vars

\* the records of the input, in input order, and what each one alone yields
ParseItems ==
    IF fn_in.mode = "text" THEN splitlines(fn_in.text)
    ELSE IF fn_in.mode = "csv" THEN fn_in.rows
    ELSE IF fn_in.json.kind = "dict" THEN Get(fn_in.json.fields, "objects", <<>>)
    ELSE <<>>

ParseOne(item) ==
    IF fn_in.mode = "text" THEN parse_line(item, <<>>)
    ELSE IF fn_in.mode = "csv" THEN csv_row(item, <<>>)
    ELSE json_entry(item, <<>>).value

Produces(i) == ParseOne(ParseItems[i]) # <<>>
KeyOf(i) == ParseOne(ParseItems[i])[1].normalized_key

\* C1: a returned list holds no two Objects with the same normalized_key,
\* every key some input record produced is present, and the Object kept for
\* a key is the one built from the last record that produced it (last-wins),
\* for text, CSV and JSON input alike.
C1_DedupLastWins ==
    (fn_out.done /\ fn_out.ok) =>
        LET res == fn_out.value
            n   == Len(ParseItems)
        IN  /\ \A i, j \in 1..Len(res) :
                   i # j => res[i].normalized_key # res[j].normalized_key
            /\ \A i \in 1..n : Produces(i) =>
                   LET last == Max({j \in 1..n : Produces(j) /\ KeyOf(j) = KeyOf(i)})
                   IN  \E r \in 1..Len(res) : res[r] = ParseOne(ParseItems[last])[1]
            /\ \A r \in 1..Len(res) :
                   \E i \in 1..n : Produces(i) /\ KeyOf(i) = res[r].normalized_key

\* two lines differing only in letter case gave one Object, the later one
C1_Witness ==
    /\ fn_out.done /\ fn_in.mode = "text"
    /\ \E i, j \in 1..Len(ParseItems) :
          /\ i < j
          /\ ParseItems[i] # ParseItems[j]
          /\ upper(ParseItems[i]) = upper(ParseItems[j])
          /\ Produces(i)
          /\ Len(fn_out.value) = 1
          /\ fn_out.value[1].raw = strip(ParseItems[j])

\* C12: given a bare JSON array, load_objects_from_json returns without an
\* error the Objects it returns for the same array wrapped as the `objects`
\* field of a JSON object (entries that are no JSON objects skipped).
C12_BareArrayAccepted ==
    (fn_out.done /\ fn_in.mode = "json" /\ fn_in.json.kind = "list") =>
        /\ fn_out.ok
        /\ fn_out.value =
               load_objects_from_json(
                   [kind |-> "dict", fields |-> [objects |-> fn_in.json.items]]).value

-----------------------------------------------------------------------------
(* navica/core/mapping.py *)

\* fnmatch(v, pat) for patterns of literals, "*" and "?" (the patterns of the
\* model hold no bracket expression); os.path.normcase is the identity
RECURSIVE fnmatch(_, _)
fnmatch(v, pat) ==
    IF pat = <<>> THEN v = <<>>
    ELSE IF Head(pat) = "*"
    THEN \E k \in 0..Len(v) : fnmatch(SubSeq(v, k + 1, Len(v)), Tail(pat))
    ELSE IF v = <<>> THEN FALSE
    ELSE (Head(pat) = "?" \/ Head(pat) = Head(v)) /\ fnmatch(Tail(v), Tail(pat))

match_any(patterns, value) ==
    IF patterns = <<>> THEN FALSE
    ELSE LET v == upper(Or(value, <<>>))
         IN  \E i \in 1..Len(patterns) : fnmatch(v, upper(Or(patterns[i], <<>>)))

\* the objects of `objects`, in order, that satisfy Keep
Filter(s, Keep(_)) ==
    LET idx == {i \in 1..Len(s) : Keep(s[i])}
    IN  [j \in 1..Cardinality(idx) |->
            s[CHOOSE i \in idx : Cardinality({x \in idx : x <= i}) = j]]

\* s[:n]
Take(s, n) == SubSeq(s, 1, IF Len(s) < n THEN Len(s) ELSE n)

TopObjectsCap == 10

\* app_matches with an empty pattern list counted as a failed check
app_matches_needs_pattern(app, o) ==
    LET rules     == Get(app, "match_rules", <<>>)
        types     == Get(rules, "object_types", <<>>)
        obj_types == {upper(types[i]) : i \in 1..Len(types)}
    IN  /\ obj_types = {} \/ upper(Or(o.obj_type, <<>>)) \in obj_types
        /\ \/ match_any(Get(rules, "namespaces", <<>>), upper(Or(o.obj_name, <<>>)))
           \/ match_any(Get(rules, "packages", <<>>), upper(Or(o.package, <<>>)))

\* the condition under which the loop appends o to `matched`
app_matches(app, o) ==
    LET rules     == Get(app, "match_rules", <<>>)
        pkg_pats  == Get(rules, "packages", <<>>)
        ns_pats   == Get(rules, "namespaces", <<>>)
        types     == Get(rules, "object_types", <<>>)
        obj_types == {upper(types[i]) : i \in 1..Len(types)}
        otype     == upper(Or(o.obj_type, <<>>))
        oname     == upper(Or(o.obj_name, <<>>))
        opkg      == upper(Or(o.package, <<>>))
        type_ok   == obj_types = {} \/ otype \in obj_types
        ns_ok     == ns_pats = <<>> \/ match_any(ns_pats, oname)
        pkg_ok    == pkg_pats = <<>> \/ match_any(pkg_pats, opkg)
    IN  type_ok /\ (ns_ok \/ pkg_ok)

\* the sort key (impact_score, criticality); impact_score is the float
\* matched / total, kept as the fraction num/den
key_less(a, b) ==
    LET x == a.impact_score.num * b.impact_score.den
        y == b.impact_score.num * a.impact_score.den
    IN  x < y \/ (x = y /\ a.criticality < b.criticality)

\* results.sort(key=..., reverse=True): stable, largest key first
RECURSIVE sort_apps(_)
sort_apps(s) ==
    IF s = <<>> THEN <<>>
    ELSE LET rest == sort_apps(Tail(s))
             \* Head(s) goes before the first element it is not less than
             le   == {i \in 1..Len(rest) : ~key_less(Head(s), rest[i])}
             at   == IF le = {} THEN Len(rest) + 1 ELSE Min(le)
         IN  SubSeq(rest, 1, at - 1) \o <<Head(s)>> \o SubSeq(rest, at, Len(rest))

\* impacted_app changed to list every matched key (no [:10])
impacted_app_uncapped(app, matched, total) ==
    [app_id          |-> Get(app, "app_id", None),
     display_name    |-> Get(app, "display_name", Get(app, "app_id", None)),
     impact_score    |-> [num |-> Len(matched), den |-> IF total < 1 THEN 1 ELSE total],
     matched_objects |-> Len(matched),
     top_objects     |-> [i \in 1..Len(matched) |-> matched[i].normalized_key],
     tags            |-> Get(app, "tags", <<>>),
     criticality     |-> Get(app, "criticality", 3)]

\* the record appended to `results` for an app with matches
impacted_app(app, matched, total) ==
    [app_id          |-> Get(app, "app_id", None),
     display_name    |-> Get(app, "display_name", Get(app, "app_id", None)),
     impact_score    |-> LET den == IF total < 1 THEN 1 ELSE total
                         IN  IF Len(matched) > den THEN [num |-> 1, den |-> 1]
                             ELSE [num |-> Len(matched), den |-> den],
     matched_objects |-> Len(matched),
     top_objects     |-> [i \in 1..Len(Take(matched, TopObjectsCap)) |->
                             matched[i].normalized_key],
     tags            |-> Get(app, "tags", <<>>),
     criticality     |-> Get(app, "criticality", 3)]

RECURSIVE map_apps(_, _)
map_apps(apps, objects) ==
    IF apps = <<>> THEN <<>>
    ELSE LET app     == Head(apps)
             Keep(o) == app_matches(app, o)
             matched == Filter(objects, Keep)
         IN  (IF matched # <<>>
              THEN <<impacted_app(app, matched, Len(objects))>>
              ELSE <<>>) \o map_apps(Tail(apps), objects)

map_objects_to_apps(objects, catalog) ==
    sort_apps(map_apps(Get(catalog, "apps", <<>>), objects))

-----------------------------------------------------------------------------
(* The matcher applied to bounded object lists and catalogs *)

InjSeqsUpTo(S, n) ==
    {q \in SeqsUpTo(S, n) : \A i, j \in 1..Len(q) : i # j => q[i] # q[j]}

ObjPool ==
    { make_obj(R3TR, PROG, ZA, <<>>, <<"Z","F","I">>, None),
      make_obj(R3TR, TABL, ZB, <<>>, None, None),
      make_obj(R3TR, CMOD, <<"Y","C">>, <<>>, <<"Z","S","D">>, None),
      make_obj(LIMU, DTEL, <<"X","D">>, <<>>, <<"Z","F","I","1">>, None) }

\* one list longer than the cap on top_objects: R3TR PROG ZA .. ZK
BigObjects ==
    [i \in 1..(TopObjectsCap + 1) |->
        make_obj(R3TR, PROG, <<"Z", UpperChars[i]>>, <<>>, None, None)]

AppPool ==
    { [app_id |-> "ns_z", criticality |-> 5,
       match_rules |-> [namespaces |-> << <<"z","*">> >>]],
      [app_id |-> "pkg_fi",
       match_rules |-> [packages |-> << <<"Z","F","I","*">> >>,
                        object_types |-> <<TABL, PROG>>]],
      [app_id |-> "type_tabl", criticality |-> 4,
       match_rules |-> [object_types |-> << <<"t","a","b","l">> >>]],
      [app_id |-> "both", criticality |-> 2,
       match_rules |-> [namespaces |-> << <<"Y","?">> >>,
                        packages |-> << <<"z","s","d">>, <<"Q">> >>,
                        object_types |-> << CMOD, TABL >>]],
      [app_id |-> "all", criticality |-> 1],
      [app_id |-> "ns_q", criticality |-> 5,
       match_rules |-> [namespaces |-> << <<"Q","*">> >>, packages |-> <<>>]] }

MapInputs ==
    {[objects |-> o, catalog |-> [apps |-> a]] :
        o \in InjSeqsUpTo(ObjPool, MaxObjs) \cup {BigObjects},
        a \in SeqsUpTo(AppPool, MaxApps)}

InitMap ==
    /\ SysIdle
    /\ fn_in \in MapInputs
    /\ fn_out = NotCalled

CallMapObjectsToApps ==
    /\ ~fn_out.done
    /\ fn_out' = [done |-> TRUE,
                  value |-> map_objects_to_apps(fn_in.objects, fn_in.catalog)]
    /\ UNCHANGED <<SysVars, fn_in>>

NextMap == CallMapObjectsToApps

SpecMap == InitMap /\ [][NextMap]_vars

\* what the entry's rules say of an object, stated from the rule sets
RuleSets(app) ==
    LET rules == Get(app, "match_rules", <<>>)
        types == Get(rules, "object_types", <<>>)
    IN  [ns    |-> Get(rules, "namespaces", <<>>),
         pkg   |-> Get(rules, "packages", <<>>),
         types |-> {upper(types[i]) : i \in 1..Len(types)}]

\* indices of the objects the code matched for entry a of the catalog
MatchedIdx(a) ==
    {i \in 1..Len(fn_in.objects) :
        app_matches(fn_in.catalog.apps[a], fn_in.objects[i])}

NthOf(S, j) == CHOOSE i \in S : Cardinality({x \in S : x <= i}) = j

\* C9: one ImpactedApp for exactly the entries with at least one match;
\* matched_objects >= 1, impact_score = matched_objects / total objects, in
\* (0, 1], top_objects the first min(10, matched_objects) matched keys in
\* object order.
C9_ImpactedApps ==
    fn_out.done =>
        LET res  == fn_out.value
            apps == fn_in.catalog.apps
            objs == fn_in.objects
            Hit  == {a \in 1..Len(apps) : MatchedIdx(a) # {}}
        IN  /\ Len(res) = Cardinality(Hit)
            /\ \E f \in [1..Len(res) -> Hit] :
                  /\ \A r1, r2 \in 1..Len(res) : r1 # r2 => f[r1] # f[r2]
                  /\ \A r \in 1..Len(res) :
                        LET M == MatchedIdx(f[r])
                            n == Cardinality(M)
                            c == IF n < 10 THEN n ELSE 10
                        IN  /\ res[r].app_id = apps[f[r]].app_id
                            /\ res[r].matched_objects = n
                            /\ n >= 1
                            /\ res[r].impact_score.num * Len(objs)
                                  = n * res[r].impact_score.den
                            /\ res[r].impact_score.num > 0
                            /\ res[r].impact_score.den > 0
                            /\ res[r].impact_score.num <= res[r].impact_score.den
                            /\ Len(res[r].top_objects) = c
                            /\ \A j \in 1..c :
                                  res[r].top_objects[j]
                                      = objs[NthOf(M, j)].normalized_key

\* an entry without matches is left out while another matched more than 10
\* objects and lists 10 of them
C9_Witness ==
    /\ fn_out.done
    /\ Len(fn_out.value) = 1
    /\ Len(fn_in.catalog.apps) = 2
    /\ fn_out.value[1].matched_objects = 11
    /\ Len(fn_out.value[1].top_objects) = 10

\* C10: for an entry with a non-empty namespace or package pattern set,
\* every matched object has an accepted type and passes a real pattern check:
\* its name matches a namespace pattern or its package a package pattern.
C10_RealPatternCheck ==
    fn_out.done =>
        \A a \in 1..Len(fn_in.catalog.apps) :
            LET rs == RuleSets(fn_in.catalog.apps[a])
            IN  (rs.ns # <<>> \/ rs.pkg # <<>>) =>
                    \A i \in MatchedIdx(a) :
                        LET o == fn_in.objects[i]
                        IN  /\ rs.types = {} \/ o.obj_type \in rs.types
                            /\ \/ match_any(rs.ns, o.obj_name)
                               \/ match_any(rs.pkg, o.package)

\* indices of the objects whose type the entry's object_types accept
TypeIdx(a) ==
    LET rs == RuleSets(fn_in.catalog.apps[a])
    IN  {i \in 1..Len(fn_in.objects) :
            rs.types = {} \/ upper(fn_in.objects[i].obj_type) \in rs.types}

\* C11: for an entry whose namespace and package pattern sets are both empty
\* the matched objects are exactly the objects whose type is in object_types
\* (all objects when that set is empty too): the entry is returned iff there
\* is such an object, with that count and those keys; a catalog of one such
\* entry yields exactly one ImpactedApp.
C11_TypeOnlyEntry ==
    fn_out.done =>
        \A a \in 1..Len(fn_in.catalog.apps) :
            LET app  == fn_in.catalog.apps[a]
                rs   == RuleSets(app)
                E    == TypeIdx(a)
                n    == Cardinality(E)
                c    == IF n < 10 THEN n ELSE 10
                Mine == {r \in 1..Len(fn_out.value) : fn_out.value[r].app_id = app.app_id}
            IN  (rs.ns = <<>> /\ rs.pkg = <<>>) =>
                    /\ (E = {}) <=> (Mine = {})
                    /\ \A r \in Mine :
                          /\ fn_out.value[r].matched_objects = n
                          /\ fn_out.value[r].top_objects =
                                 [j \in 1..c |-> fn_in.objects[NthOf(E, j)].normalized_key]
                    /\ (Len(fn_in.catalog.apps) = 1 /\ E # {}) => Len(fn_out.value) = 1

\* an entry with object_types = [TABL] alone, one TABL and one PROG object:
\* one ImpactedApp with matched_objects = 1
C11_Witness ==
    /\ fn_out.done
    /\ Len(fn_in.catalog.apps) = 1
    /\ fn_in.catalog.apps[1].app_id = "type_tabl"
    /\ {fn_in.objects[i].obj_type : i \in 1..Len(fn_in.objects)} = {TABL, PROG}
    /\ Len(fn_in.objects) = 2
    /\ Len(fn_out.value) = 1
    /\ fn_out.value[1].matched_objects = 1

-----------------------------------------------------------------------------
(* Python floats (IEEE 754 binary64) of the scorer                          *)
(*                                                                          *)
(* A float x with x = 0 or 1 <= x < 2^11 is the triple <<a, b, c>> with     *)
(* x * 2^52 = a * 2^40 + b * 2^20 + c and 0 <= b, c < 2^20.  Every result   *)
(* is rounded to 53 significant bits, ties to even, as the hardware does.   *)

Limb == 2^20

FNorm(a, b, c) ==
    LET b1 == b + (c \div Limb)
    IN  <<a + (b1 \div Limb), b1 % Limb, c % Limb>>

\* float(n) for an integer 0 <= n < 2^11
FFromInt(n) == <<n * (2^12), 0, 0>>

\* the float 1.3 = 0x3FF4CCCCCCCCCCCD
F_1_3 == <<5324, 838860, 838861>>

\* number of binary digits of x * 2^52
FBitLen(x) ==
    IF x[1] = 0 THEN 0
    ELSE 40 + (CHOOSE k \in 1..31 : 2^(k - 1) <= x[1] /\ x[1] < 2^k)

\* the exact value (q + r/n) * 2^-52, with 0 <= r < n, rounded to a float
FRound(q, r, n) ==
    LET k    == FBitLen(q) - 53
        u    == 2^k
        low  == q[3] % u
        half == u \div 2
        odd  == (q[3] \div u) % 2 = 1
        up   == IF k = 0
                THEN 2 * r > n \/ (2 * r = n /\ odd)
                ELSE \/ low > half
                     \/ low = half /\ r > 0
                     \/ low = half /\ r = 0 /\ odd
    IN  IF k < 0 THEN q
        ELSE FNorm(q[1], q[2], q[3] - low + (IF up THEN u ELSE 0))

\* x * m for an integer m: exact product, then rounded
FMulInt(x, m) == FRound(FNorm(x[1] * m, x[2] * m, x[3] * m), 0, 1)

\* x + y
FAdd(x, y) == FRound(FNorm(x[1] + y[1], x[2] + y[2], x[3] + y[3]), 0, 1)

\* x / n for an integer n >= 1: long division, then rounded
FDivInt(x, n) ==
    LET tb == (x[1] % n) * Limb + x[2]
        tc == (tb % n) * Limb + x[3]
    IN  FRound(<<x[1] \div n, tb \div n, tc \div n>>, tc % n, n)

\* x * 1.25: the float 1.25 is 5/4 exactly
FMul_1_25(x) ==
    LET p  == FNorm(x[1] * 5, x[2] * 5, x[3] * 5)
        tb == (p[1] % 4) * Limb + p[2]
        tc == (tb % 4) * Limb + p[3]
    IN  FRound(<<p[1] \div 4, tb \div 4, tc \div 4>>, tc % 4, 4)

\* int(x): the fraction cut off
py_round_trunc(x) == x[1] \div (2^12)

\* int(round(x)): round half to even
py_round(x) ==
    LET ip   == x[1] \div (2^12)
        fa   == x[1] % (2^12)
        more == fa > 2^11 \/ (fa = 2^11 /\ (x[2] > 0 \/ x[3] > 0))
        tie  == fa = 2^11 /\ x[2] = 0 /\ x[3] = 0
    IN  IF more \/ (tie /\ ip % 2 = 1) THEN ip + 1 ELSE ip

-----------------------------------------------------------------------------
(* sorted() on str: order by code point *)

AsciiChars ==
    <<"\t","\n"," ","!","#","$","%","&","'","*","+",",","-",".",
      "/","0","1","2","3","4","5","6","7","8","9",":",";","<","=",">","?","@",
      "A","B","C","D","E","F","G","H","I","J","K","L","M","N","O","P","Q","R",
      "S","T","U","V","W","X","Y","Z","[","\\","]","^","_","a","b","c","d",
      "e","f","g","h","i","j","k","l","m","n","o","p","q","r","s","t","u","v",
      "w","x","y","z","{","|","}","~">>

Ord == [c \in {AsciiChars[i] : i \in 1..Len(AsciiChars)} |->
           CHOOSE i \in 1..Len(AsciiChars) : AsciiChars[i] = c]

\* s < t for str
str_less(s, t) ==
    \E k \in 1..(Len(t)) :
        /\ k <= Len(s) + 1
        /\ SubSeq(s, 1, k - 1) = SubSeq(t, 1, k - 1)
        /\ (k = Len(s) + 1 \/ Ord[s[k]] < Ord[t[k]])

\* sorted(list(S)) for a set S of str
RECURSIVE sorted_keys(_)
sorted_keys(S) ==
    IF S = {} THEN <<>>
    ELSE LET least == CHOOSE x \in S : \A y \in S : ~str_less(y, x)
         IN  <<least>> \o sorted_keys(S \ {least})

-----------------------------------------------------------------------------
(* navica/data/db.py *)

\* The text of column generated_at is one of
\*   [kind |-> "null"]                          NULL (findings without the key)
\*   [kind |-> "empty"]                         ""
\*   [kind |-> "text"]                          text that is no ISO timestamp
\*   [kind |-> "iso", day |-> d, aware |-> b]   datetime.isoformat() output,
\*                                              with (b) or without a UTC offset
\* datetime.now(APP_TZ).isoformat()
isoformat(day) == [kind |-> "iso", day |-> day, aware |-> TRUE]

\* datetime.fromisoformat(gen_at)
fromisoformat(gen_at) ==
    IF gen_at.kind = "iso"
    THEN [ok |-> TRUE, day |-> gen_at.day, aware |-> gen_at.aware]
    ELSE [ok |-> FALSE, exc |-> "ValueError"]

\* json.dumps(findings) / json.loads(fj); a column text that is no JSON
\* document is [valid |-> FALSE]
json_dumps(v) == [valid |-> TRUE, doc |-> v]
json_loads(t) ==
    IF t.valid THEN [ok |-> TRUE, value |-> t.doc]
    ELSE [ok |-> FALSE, exc |-> "JSONDecodeError"]

\* rows removed by INSERT OR REPLACE, or excluded by WHERE change_id <> ?
rows_without(rows, change_id) ==
    LET Keep(r) == r.change_id # change_id
    IN  Filter(rows, Keep)

\* NavicaDB.save_change with a row scan changed to keep the replaced row too
save_change_no_replace(rows, change_id, findings) ==
    Append(rows,
           [change_id     |-> change_id,
            generated_at  |-> Get(findings, "generated_at", [kind |-> "null"]),
            findings_json |-> json_dumps(findings)])

\* save_change emptying the table before its insert
save_change_alone(rows, change_id, findings) ==
    << [change_id     |-> change_id,
        generated_at  |-> Get(findings, "generated_at", [kind |-> "null"]),
        findings_json |-> json_dumps(findings)] >>

\* NavicaDB.save_change: INSERT OR REPLACE deletes the row of the same
\* change_id and inserts the new one with the next rowid
save_change(rows, change_id, findings) ==
    Append(rows_without(rows, change_id),
           [change_id     |-> change_id,
            generated_at  |-> Get(findings, "generated_at", [kind |-> "null"]),
            findings_json |-> json_dumps(findings)])

OverlapsCap == 25
SharedObjectsCap == 200

\* an element of a parsed JSON list is a JSON object unless marked otherwise
is_dict(e) == ("is_dict" \notin DOMAIN e) \/ e.is_dict

\* the keys of a list of dicts: r.get("normalized_key") if truthy
keys_of(list) ==
    {list[i].normalized_key : i \in {j \in 1..Len(list) :
        "normalized_key" \in DOMAIN list[j] /\ Truthy(list[j].normalized_key)}}

\* overlap_of_row without the recency test and reporting one shared key only
overlap_of_row_first_key(row, obj_set, cutoff) ==
    LET other  == json_loads(row.findings_json)
        shared == sorted_keys(obj_set \cap keys_of(Get(other.value, "object_risks", <<>>)))
    IN  IF ~other.ok \/ shared = <<>> THEN <<>>
        ELSE << [other_change_id     |-> row.change_id,
                 shared_object_count |-> 1,
                 shared_objects      |-> Take(shared, 1)] >>

\* the body of the loop over rows: the record appended to `overlaps` for one
\* row, <<>> when the row is skipped (continue, no shared key, or an exception
\* swallowed by `except Exception: continue`)
overlap_of_row(row, obj_set, cutoff) ==
    LET gen_at == row.generated_at
        dt     == fromisoformat(gen_at)
        other  == json_loads(row.findings_json)
        risks  == keys_of(Get(other.value, "object_risks", <<>>))
        \* r.get on an entry of object_risks that is no JSON object
        no_get == \E i \in 1..Len(Get(other.value, "object_risks", <<>>)) :
                      ~is_dict(other.value.object_risks[i])
        other_objs ==
            IF risks = {} /\ Get(other.value, "objects", <<>>) # <<>>
            THEN {other.value.objects[i].normalized_key :
                     i \in 1..Len(other.value.objects)}
            ELSE risks
        shared == sorted_keys(obj_set \cap other_objs)
    IN  IF gen_at.kind \in {"text", "iso"} /\ ~dt.ok THEN <<>>
        ELSE IF gen_at.kind = "iso" /\ ~dt.aware THEN <<>>
        ELSE IF gen_at.kind = "iso" /\ dt.day < cutoff THEN <<>>
        ELSE IF ~other.ok THEN <<>>
        ELSE IF no_get THEN <<>>
        ELSE IF shared = <<>> THEN <<>>
        ELSE << [other_change_id     |-> row.change_id,
                 shared_object_count |-> Len(shared),
                 shared_objects      |-> Take(shared, SharedObjectsCap)] >>

\* the loop over rows with the try around the whole loop: the first row
\* whose findings_json is no JSON ends the scan
RECURSIVE overlaps_of_rows_abort(_, _, _)
overlaps_of_rows_abort(rows, obj_set, cutoff) ==
    IF rows = <<>> THEN <<>>
    ELSE IF ~Head(rows).findings_json.valid THEN <<>>
    ELSE overlap_of_row(Head(rows), obj_set, cutoff)
             \o overlaps_of_rows_abort(Tail(rows), obj_set, cutoff)

RECURSIVE overlaps_of_rows(_, _, _)
overlaps_of_rows(rows, obj_set, cutoff) ==
    IF rows = <<>> THEN <<>>
    ELSE overlap_of_row(Head(rows), obj_set, cutoff)
             \o overlaps_of_rows(Tail(rows), obj_set, cutoff)

\* the sort left out
sort_overlaps_none(s) == s

\* overlaps.sort(key=shared_object_count, reverse=True): stable
RECURSIVE sort_overlaps(_)
sort_overlaps(s) ==
    IF s = <<>> THEN <<>>
    ELSE LET rest == sort_overlaps(Tail(s))
             le   == {i \in 1..Len(rest) :
                         rest[i].shared_object_count <= Head(s).shared_object_count}
             at   == IF le = {} THEN Len(rest) + 1 ELSE Min(le)
         IN  SubSeq(rest, 1, at - 1) \o <<Head(s)>> \o SubSeq(rest, at, Len(rest))

\* find_overlaps without WHERE change_id <> ?
find_overlaps_with_self(rows, today, change_id, objects, window_days) ==
    Take(sort_overlaps(overlaps_of_rows(rows, keys_of(objects),
                                        today - window_days)), OverlapsCap)

\* find_overlaps with the recency test dropped
find_overlaps_no_window(rows, today, change_id, objects, window_days) ==
    Take(sort_overlaps(overlaps_of_rows(rows_without(rows, change_id),
                                        keys_of(objects), 0 - 1)), OverlapsCap)

\* NavicaDB.find_overlaps, called on day `today`
find_overlaps(rows, today, change_id, objects, window_days) ==
    LET obj_set == keys_of(objects)
        cutoff  == today - window_days
    IN  Take(sort_overlaps(overlaps_of_rows(rows_without(rows, change_id),
                                            obj_set, cutoff)), OverlapsCap)

-----------------------------------------------------------------------------
(* navica/core/scoring.py *)

BASE_POINTS(otype) ==
    CASE otype \in {PROG, <<"R","E","P","S">>, <<"R","E","P","T">>} -> 6
      [] otype \in {CMOD, <<"S","M","O","D">>} -> 8
      [] otype \in {<<"E","N","H","O">>, <<"E","N","H","S">>, <<"S","P","O","T">>} -> 9
      [] otype \in {<<"C","L","A","S">>, <<"I","N","T","F">>} -> 7
      [] otype \in {<<"F","U","G","R">>, <<"F","U","N","C">>} -> 8
      [] otype = TABL -> 10
      [] otype \in {<<"V","I","E","W">>, <<"D","D","L","S">>} -> 9
      [] otype \in {DTEL, <<"D","O","M","A">>, <<"T","T","Y","P">>} -> 5
      [] OTHER -> 3

\* _risk_level with the Medium threshold off by one (score > 40)
risk_level_off_by_one(score) ==
    IF score >= 75 THEN "High"
    ELSE IF score > 40 THEN "Medium"
    ELSE "Low"

risk_level(score) ==
    IF score >= 75 THEN "High"
    ELSE IF score >= 40 THEN "Medium"
    ELSE "Low"

\* overlap_counts.get(nk, 0)
overlap_count(overlaps, nk) ==
    Cardinality({i \in 1..Len(overlaps) :
        \E j \in 1..Len(overlaps[i].shared_objects) :
            overlaps[i].shared_objects[j] = nk})

critical_object_set(impacted_apps) ==
    UNION {{impacted_apps[a].top_objects[j] :
               j \in 1..Len(Get(impacted_apps[a], "top_objects", <<>>))} :
           a \in {x \in 1..Len(impacted_apps) :
                     Get(impacted_apps[x], "criticality", 0) >= 4}}

\* object_points with the multiplier applied after the overlap bonus
object_points_scaled_bonus(o, impacted_apps, overlaps) ==
    LET nk    == o.normalized_key
        base  == BASE_POINTS(upper(Or(o.obj_type, <<>>)))
        n     == overlap_count(overlaps, nk)
        p1    == IF n = 1 THEN base + 2
                 ELSE IF n = 2 THEN base + 5
                 ELSE IF n >= 3 THEN base + 9
                 ELSE base
        p2    == IF nk \in critical_object_set(impacted_apps)
                 THEN FMulInt(F_1_3, p1)
                 ELSE FFromInt(p1)
        name  == upper(Get(o, "obj_name", <<>>))
    IN  IF Len(impacted_apps) > 3 /\ name # <<>> /\ name[1] \in {"Z", "Y"}
        THEN FAdd(p2, FFromInt(2))
        ELSE p2

\* the float `points` of one object at the end of the loop body
object_points(o, impacted_apps, overlaps) ==
    LET nk    == o.normalized_key
        otype == upper(Or(o.obj_type, <<>>))
        base  == BASE_POINTS(otype)
        p1    == IF nk \in critical_object_set(impacted_apps)
                 THEN FMulInt(F_1_3, base)
                 ELSE FFromInt(base)
        n     == overlap_count(overlaps, nk)
        p2    == IF n = 1 THEN FAdd(p1, FFromInt(2))
                 ELSE IF n = 2 THEN FAdd(p1, FFromInt(5))
                 ELSE IF n >= 3 THEN FAdd(p1, FFromInt(9))
                 ELSE p1
        name  == upper(Get(o, "obj_name", <<>>))
    IN  IF Len(impacted_apps) > 3 /\ name # <<>> /\ name[1] \in {"Z", "Y"}
        THEN FAdd(p2, FFromInt(2))
        ELSE p2

object_reasons(o, impacted_apps, overlaps) ==
    LET nk    == o.normalized_key
        otype == upper(Or(o.obj_type, <<>>))
        n     == overlap_count(overlaps, nk)
        name  == upper(Get(o, "obj_name", <<>>))
    IN  << [type |-> IF otype = <<>> THEN <<"U","N","K">> ELSE otype] >>
        \o (IF nk \in critical_object_set(impacted_apps)
            THEN << [flag |-> "matched_critical_app"] >> ELSE <<>>)
        \o (IF n >= 1 THEN << [shared_across_changes |-> n] >> ELSE <<>>)
        \o (IF Len(impacted_apps) > 3 /\ name # <<>> /\ name[1] \in {"Z", "Y"}
            THEN << [flag |-> "wide_app_impact_hint"] >> ELSE <<>>)

\* total_points after the loop over objects
RECURSIVE total_points(_, _, _, _)
total_points(objects, impacted_apps, overlaps, acc) ==
    IF objects = <<>> THEN acc
    ELSE total_points(Tail(objects), impacted_apps, overlaps,
                      FAdd(acc, object_points(Head(objects), impacted_apps, overlaps)))

\* sorted(object_risks, key=risk_points, reverse=True): stable
RECURSIVE sort_risks(_)
sort_risks(s) ==
    IF s = <<>> THEN <<>>
    ELSE LET rest == sort_risks(Tail(s))
             le   == {i \in 1..Len(rest) : rest[i].risk_points <= Head(s).risk_points}
             at   == IF le = {} THEN Len(rest) + 1 ELSE Min(le)
         IN  SubSeq(rest, 1, at - 1) \o <<Head(s)>> \o SubSeq(rest, at, Len(rest))

ScoreCap == 100

\* score_change with the cap at 100 left out
risk_score_uncapped(total, n) ==
    py_round(FMulInt(FMul_1_25(FDivInt(total, IF n < 1 THEN 1 ELSE n)), 10))

\* the aggregate score: min(100, int(round((total / max(1, n)) * 1.25 * 10)))
risk_score(total, n) ==
    LET avg == FDivInt(total, IF n < 1 THEN 1 ELSE n)
        raw == py_round(FMulInt(FMul_1_25(avg), 10))
    IN  IF raw > ScoreCap THEN ScoreCap ELSE raw

\* score_change(change_id, objects, impacted_apps, overlap_window_days, db),
\* with db given as its rows and the clock as the day `today`
score_change(change_id, objects, impacted_apps, overlap_window_days, rows, today) ==
    LET overlaps == find_overlaps(rows, today, change_id, objects,
                                  overlap_window_days)
        overlaps_found ==
            Cardinality({i \in 1..Len(overlaps) : overlaps[i].shared_object_count > 0})
        object_risks ==
            [i \in 1..Len(objects) |->
                [normalized_key |-> objects[i].normalized_key,
                 risk_points    |-> py_round(object_points(objects[i],
                                                           impacted_apps, overlaps)),
                 reasons        |-> object_reasons(objects[i], impacted_apps,
                                                   overlaps)]]
        total == total_points(objects, impacted_apps, overlaps, FFromInt(0))
        score == risk_score(total, Len(objects))
    IN  [navica_version |-> "0.1",
         change_id      |-> change_id,
         generated_at   |-> isoformat(today),
         summary        |-> [risk_score     |-> score,
                             risk_level     |-> risk_level(score),
                             objects_total  |-> Len(objects),
                             apps_impacted  |-> Len(impacted_apps),
                             overlaps_found |-> overlaps_found],
         impacted_apps  |-> impacted_apps,
         overlaps       |-> overlaps,
         object_risks   |-> sort_risks(object_risks),
         notes          |-> <<>>,
         tester_scope_suggestions |-> <<"overlap_table", "exits_and_ddic">>]

-----------------------------------------------------------------------------
(* The scorer applied to bounded inputs *)

O_ZA == make_obj(R3TR, PROG, ZA, <<>>, <<"Z","F","I">>, None)
O_ZB == make_obj(R3TR, TABL, ZB, <<>>, None, None)
O_YC == make_obj(R3TR, CMOD, <<"Y","C">>, <<>>, <<"Z","S","D">>, None)
\* an object of a type that is not in BASE_POINTS, and one without a type
O_ZU == make_obj(R3TR, <<"X","S","L","T">>, <<"Z","U">>, <<>>, None, None)
O_NT == make_obj(R3TR, <<>>, <<"N","T">>, <<>>, None, None)

\* the row that an analysis of `objects` under change_id on `day`, with an
\* empty catalog and an empty history, leaves in the store
row_of(change_id, objects, day) ==
    save_change(<<>>, change_id,
                score_change(change_id, objects, <<>>, 30, <<>>, day))[1]

ScoreStores ==
    { <<>>,
      <<row_of("CHG-1", <<O_ZA>>, 0)>>,
      <<row_of("CHG-1", <<O_ZA, O_ZB>>, 0), row_of("CHG-2", <<O_ZA>>, 0)>>,
      <<row_of("CHG-1", <<O_ZA, O_ZB>>, 0), row_of("CHG-2", <<O_ZA>>, 0),
        row_of("CHG-3", <<O_YC, O_ZA>>, 0)>> }

App_ns_z      == [app_id |-> "ns_z", criticality |-> 5,
                  match_rules |-> [namespaces |-> << <<"z","*">> >>]]
App_type_tabl == [app_id |-> "type_tabl", criticality |-> 4,
                  match_rules |-> [object_types |-> << <<"t","a","b","l">> >>]]
App_all       == [app_id |-> "all", criticality |-> 1]
App_pkg_fi    == [app_id |-> "pkg_fi",
                  match_rules |-> [packages |-> << <<"Z","F","I","*">> >>,
                                   object_types |-> <<TABL, PROG>>]]
App_y         == [app_id |-> "ns_y", criticality |-> 2,
                  match_rules |-> [namespaces |-> << <<"Y","*">> >>,
                                   packages |-> << <<"Q">> >>]]

ScoreCatalogs ==
    { [version |-> "0", apps |-> <<>>],
      [apps |-> <<App_ns_z>>],
      [apps |-> <<App_type_tabl, App_pkg_fi>>],
      [apps |-> <<App_all, App_y, App_pkg_fi, App_all>>],
      [apps |-> <<App_all, App_ns_z, App_pkg_fi, App_all>>] }

StoredIds ==
    <<"CHG-1", "CHG-2", "CHG-3", "CHG-4", "CHG-5", "CHG-6", "CHG-7", "CHG-8",
      "CHG-9", "CHG-10", "CHG-11", "CHG-12", "CHG-13", "CHG-14", "CHG-15",
      "CHG-16", "CHG-17", "CHG-18", "CHG-19", "CHG-20", "CHG-21", "CHG-22",
      "CHG-23", "CHG-24", "CHG-25", "CHG-26", "CHG-27", "CHG-28">>

\* one stored change more than the cap on records: 25 changes of ZA and ZB,
\* then one change of YC
FullStore ==
    [i \in 1..(OverlapsCap + 1) |->
        IF i <= OverlapsCap THEN row_of(StoredIds[i], <<O_ZA, O_ZB>>, 0)
        ELSE row_of(StoredIds[i], <<O_YC>>, 0)]

ScoreInputs ==
    {[fn |-> "score_change", change_id |-> c, objects |-> o,
      catalog |-> k, rows |-> r] :
        c \in {"CHG-1", "CHG-9"},
        o \in InjSeqsUpTo(ObjPool, MaxObjs),
        k \in ScoreCatalogs,
        r \in ScoreStores}
    \cup {[fn |-> "score_change", change_id |-> "CHG-9", objects |-> o,
           catalog |-> k, rows |-> r] :
              o \in {<<O_ZU>>, <<O_NT>>, <<O_ZU, O_ZA>>, <<O_NT, O_ZU>>},
              k \in ScoreCatalogs,
              r \in {<<>>, <<row_of("CHG-1", <<O_ZU, O_NT>>, 0)>>}}
    \cup {[fn |-> "score_change", change_id |-> "CHG-0",
           objects |-> <<O_ZA, O_ZB, O_YC>>,
           catalog |-> [apps |-> <<>>], rows |-> FullStore]}
    \cup {[fn |-> "risk_level", score |-> n] : n \in 0..ScoreCap}

InitScore ==
    /\ SysIdle
    /\ fn_in \in ScoreInputs
    /\ fn_out = NotCalled

CallScoreChange ==
    /\ fn_in.fn = "score_change" /\ ~fn_out.done
    /\ fn_out' = [done |-> TRUE,
                  value |-> score_change(fn_in.change_id, fn_in.objects,
                                map_objects_to_apps(fn_in.objects, fn_in.catalog),
                                30, fn_in.rows, 0)]
    /\ UNCHANGED <<SysVars, fn_in>>

CallRiskLevel ==
    /\ fn_in.fn = "risk_level" /\ ~fn_out.done
    /\ fn_out' = [done |-> TRUE, value |-> risk_level(fn_in.score)]
    /\ UNCHANGED <<SysVars, fn_in>>

NextScore == CallScoreChange \/ CallRiskLevel

SpecScore == InitScore /\ [][NextScore]_vars

\* the level the bands give a score
BandOf(score, level) ==
    /\ level = "High" <=> score >= 75
    /\ level = "Medium" <=> (40 <= score /\ score <= 74)
    /\ level = "Low" <=> score <= 39

\* C8: risk_score is an integer in 0..100 and risk_level is High exactly
\* from 75, Medium exactly for 40..74, Low exactly up to 39.
C8_ScoreBoundAndLevel ==
    fn_out.done =>
        IF fn_in.fn = "risk_level" THEN BandOf(fn_in.score, fn_out.value)
        ELSE /\ fn_out.value.summary.risk_score \in 0..100
             /\ BandOf(fn_out.value.summary.risk_score,
                       fn_out.value.summary.risk_level)

\* a change whose scaled average exceeds 100 is reported as 100, High
C8_Witness ==
    /\ fn_out.done /\ fn_in.fn = "score_change"
    /\ fn_out.value.summary.risk_score = 100
    /\ fn_out.value.summary.risk_level = "High"
    /\ risk_score_uncapped(total_points(fn_in.objects,
                               fn_out.value.impacted_apps,
                               fn_out.value.overlaps, FFromInt(0)),
                           Len(fn_in.objects)) > 100

-----------------------------------------------------------------------------
(* navica/navica_app.py *)

TopRiskRows == 25

\* _load_objects: CSV, then JSON, then the pasted text
load_objects(w) ==
    IF w.file_csv.has
    THEN [ok |-> TRUE, value |-> load_objects_from_csv(w.file_csv.rows)]
    ELSE IF w.file_json.has THEN load_objects_from_json(w.file_json.json)
    ELSE [ok |-> TRUE, value |-> parse_abap_object_text(w.paste)]

\* _build_graph(objects, impacted_apps, risk_points_by_key): nodes and edges
\* (the layout positions are left out)
build_graph(objects, impacted_apps, risk_points_by_key) ==
    LET keys == {objects[i].normalized_key : i \in 1..Len(objects)}
        rp(nk) == IF nk \in DOMAIN risk_points_by_key
                  THEN risk_points_by_key[nk] ELSE 0
        size(p) == LET m == IF 6 + p < 34 THEN 6 + p ELSE 34
                   IN  IF m > 8 THEN m ELSE 8
    IN  [nodes |->
             {[kind |-> "change", id |-> <<"CHANGE">>, risk_points |-> 0, size |-> 18]}
             \cup {[kind |-> "object", id |-> nk, risk_points |-> rp(nk),
                    size |-> size(rp(nk))] : nk \in keys}
             \cup {[kind |-> "app", id |-> <<"APP::", impacted_apps[a].app_id>>,
                    risk_points |-> 0, size |-> 16] : a \in 1..Len(impacted_apps)},
         edges |->
             UNION {{<<<<"APP::", impacted_apps[a].app_id>>, nk>> :
                        nk \in {impacted_apps[a].top_objects[j] :
                                   j \in 1..Len(impacted_apps[a].top_objects)} \cap keys} :
                    a \in 1..Len(impacted_apps)}
             \cup {<<<<"CHANGE">>, nk>> : nk \in keys}]

\* _render_graph(objects, impacted_apps, findings): the figure it leaves and
\* the exception it raises.  With objects, the second call of _build_graph
\* (two arguments for three parameters) raises TypeError after the first
\* renderer was appended.
render_graph(objects, impacted_apps, findings) ==
    IF objects = <<>>
    THEN [raised |-> FALSE,
          graph  |-> [title |-> "Risk Map (spider/network) - (no data yet)",
                      renderers |-> <<>>]]
    ELSE LET risks == Get(findings, "object_risks", <<>>)
             by_key == [nk \in {risks[i].normalized_key : i \in 1..Len(risks)} |->
                           (CHOOSE r \in {risks[i] : i \in 1..Len(risks)} :
                               r.normalized_key = nk).risk_points]
         IN  [raised |-> TRUE, exc |-> "TypeError",
              graph  |-> [title |-> "Risk Map (spider/network) - object node size reflects risk points",
                          renderers |-> <<build_graph(objects, impacted_apps, by_key)>>]]

\* pd.Series(types).value_counts(): type -> count
value_counts(objects) ==
    [t \in {objects[i].obj_type : i \in 1..Len(objects)} |->
        Cardinality({i \in 1..Len(objects) : objects[i].obj_type = t})]

\* the catalog load_app_catalog() returns: the file NAVICA_APPS_CATALOG names,
\* here one with a namespace rule and an object-type rule
AppCatalog == [version |-> "1", apps |-> <<App_ns_z, App_type_tabl>>]

\* `if not objects` with the test dropped
no_objects_never(objects) == FALSE

\* `if not objects`
no_objects(objects) == objects = <<>>

\* _analyze from "Update UI KPIs" on: the views and the status it leaves
\* (the apps table is kept without its rounded impact_score column)
analyze_show(objects, findings, rg) ==
    [views |->
         [kpis         |-> [shown |-> TRUE, summary |-> findings.summary],
          top_tbl      |-> Take(findings.object_risks, TopRiskRows),
          by_type      |-> value_counts(objects),
          apps_tbl     |-> [i \in 1..Len(findings.impacted_apps) |->
              [app_id          |-> findings.impacted_apps[i].app_id,
               display_name    |-> findings.impacted_apps[i].display_name,
               matched_objects |-> findings.impacted_apps[i].matched_objects,
               tags            |-> findings.impacted_apps[i].tags]],
          overlaps_tbl |-> [i \in 1..Len(findings.overlaps) |->
              [other_change_id     |-> findings.overlaps[i].other_change_id,
               shared_object_count |-> findings.overlaps[i].shared_object_count]],
          graph        |-> rg.graph],
     status |-> IF rg.raised THEN [kind |-> "error", exc |-> rg.exc]
                ELSE [kind |-> "complete"]]

\* _analyze from `latest_findings["data"] = findings` on
analyze_scored(objects, findings, rows) ==
    [store           |-> save_change(rows, findings.change_id, findings),
     latest_findings |-> [has |-> TRUE, data |-> findings]]
    @@ analyze_show(objects, findings,
                    render_graph(objects, findings.impacted_apps, findings))

\* _analyze after _load_objects returned or raised
analyze_loaded(loaded, w, rows, today, latest, shown) ==
    IF ~loaded.ok
    THEN [store |-> rows, latest_findings |-> latest, views |-> shown,
          status |-> [kind |-> "error", exc |-> loaded.exc]]
    ELSE IF no_objects(loaded.value)
    THEN [store |-> rows, latest_findings |-> latest, views |-> shown,
          status |-> [kind |-> "no_objects"]]
    ELSE analyze_scored(loaded.value,
                        score_change(w.change_id, loaded.value,
                                     map_objects_to_apps(loaded.value, AppCatalog),
                                     IF w.overlap_days = 0 THEN 30 ELSE w.overlap_days,
                                     rows, today),
                        rows)

\* _analyze with the widgets w, on day `today`, against the rows of the store:
\* what it leaves in store, latest_findings, views and status
analyze(w, rows, today, latest, shown) ==
    analyze_loaded(load_objects(w), w, rows, today, latest, shown)

-----------------------------------------------------------------------------
(* The History Store under its own interface: save_change and find_overlaps
   called with any findings document, as days pass *)

\* values of change_id (the widget's option list as shipped offers the single
\* id CHG-LOCAL-001; other ids reach _analyze and the store when the value
\* is set otherwise)
ChangeIds == {"CHG-1", "CHG-2"}
WindowDays == {1}

\* a day passes
Tick ==
    /\ now < MaxDay
    /\ now' = now + 1
    /\ UNCHANGED <<store, latest_findings, status, views, runs, ui, pcs, fn_in, fn_out>>

risk_of(o) == [normalized_key |-> o.normalized_key, risk_points |-> 1, reasons |-> <<>>]

\* findings documents saved on day `today`: with a generated_at that is
\* absent, empty, no timestamp, a naive timestamp or an aware timestamp; one
\* document lists its keys under "objects" only
StoreFindings(today) ==
    { [object_risks |-> <<risk_of(O_ZA), risk_of(O_ZB)>>],
      [generated_at |-> [kind |-> "empty"],
       object_risks |-> <<risk_of(O_ZA), risk_of(O_ZB)>>],
      [generated_at |-> [kind |-> "text"],
       object_risks |-> <<risk_of(O_ZA), risk_of(O_ZB)>>],
      [generated_at |-> [kind |-> "iso", day |-> today, aware |-> FALSE],
       object_risks |-> <<risk_of(O_ZA), risk_of(O_ZB)>>],
      [generated_at |-> isoformat(today),
       object_risks |-> <<risk_of(O_ZA), risk_of(O_ZB)>>],
      [generated_at |-> isoformat(today), object_risks |-> <<risk_of(O_ZA)>>],
      [generated_at |-> isoformat(today), objects |-> <<O_YC>>] }

StoreQueries == { <<O_ZA>>, <<O_ZB, O_YC>> }
QueryIds == ChangeIds \cup {"CHG-3"}

InitStore ==
    /\ SysIdle
    /\ fn_in = [fn |-> "none"]
    /\ fn_out = NotCalled

CallSaveChange(cid, f) ==
    /\ fn_in' = [fn |-> "save_change", change_id |-> cid, findings |-> f,
                 before |-> store]
    /\ store' = save_change(store, cid, f)
    /\ fn_out' = [done |-> TRUE]
    /\ UNCHANGED <<now, latest_findings, status, views, runs, ui, pcs>>

CallFindOverlaps(cid, objects, days) ==
    /\ fn_in' = [fn |-> "find_overlaps", change_id |-> cid, objects |-> objects,
                 window_days |-> days, today |-> now]
    /\ fn_out' = [done |-> TRUE,
                  value |-> find_overlaps(store, now, cid, objects, days)]
    /\ UNCHANGED SysVars

NextStore ==
    \/ \E cid \in ChangeIds : \E f \in StoreFindings(now) : CallSaveChange(cid, f)
    \/ \E cid \in QueryIds, objects \in StoreQueries, days \in WindowDays :
           CallFindOverlaps(cid, objects, days)
    \/ Tick

SpecStore == InitStore /\ [][NextStore]_vars

\* the keys a stored row holds: those of object_risks, else those of objects
StoredKeys(row) ==
    LET doc   == row.findings_json.doc
        risks == IF "object_risks" \in DOMAIN doc THEN doc.object_risks ELSE <<>>
        objs  == IF "objects" \in DOMAIN doc THEN doc.objects ELSE <<>>
    IN  IF risks # <<>> THEN {risks[i].normalized_key : i \in 1..Len(risks)}
        ELSE {objs[i].normalized_key : i \in 1..Len(objs)}

QueryKeys == {fn_in.objects[i].normalized_key : i \in 1..Len(fn_in.objects)}

IsReported(row) ==
    \E j \in 1..Len(fn_out.value) : fn_out.value[j].other_change_id = row.change_id

IsCandidate(row) == row.change_id # fn_in.change_id /\ QueryKeys \cap StoredKeys(row) # {}

\* C3: in every find_overlaps call, a stored change whose generated_at parses
\* to a time strictly before now - window_days is in no returned record,
\* whatever it shares; a stored change of another id that shares a key and
\* whose (timezone-aware) generated_at is at or after the cutoff is returned
\* (with no more than 25 stored changes)
C3_OverlapWindow ==
    fn_in.fn = "find_overlaps" =>
        \A i \in 1..Len(store) :
            LET row    == store[i]
                cutoff == fn_in.today - fn_in.window_days
            IN  row.generated_at.kind = "iso" =>
                    /\ row.generated_at.day < cutoff => ~IsReported(row)
                    /\ ( /\ row.generated_at.aware
                         /\ row.generated_at.day >= cutoff
                         /\ IsCandidate(row)
                         /\ Len(store) <= OverlapsCap ) => IsReported(row)

\* a query met a sharing row older than the window and a sharing row inside it
C3_Witness ==
    /\ fn_in.fn = "find_overlaps"
    /\ \E i, j \in 1..Len(store) :
          /\ store[i].generated_at.kind = "iso" /\ store[j].generated_at.kind = "iso"
          /\ store[i].generated_at.day < fn_in.today - fn_in.window_days
          /\ store[j].generated_at.day >= fn_in.today - fn_in.window_days
          /\ store[j].generated_at.aware
          /\ IsCandidate(store[i]) /\ IsCandidate(store[j])
          /\ IsReported(store[j]) /\ ~IsReported(store[i])

\* C4: in find_overlaps a stored change whose generated_at is missing or is no
\* timestamp is not excluded: if it shares a key with the current change it
\* is returned
C4_UnparseableNotSkipped ==
    fn_in.fn = "find_overlaps" =>
        \A i \in 1..Len(store) :
            ( /\ store[i].generated_at.kind \in {"null", "empty", "text"}
              /\ IsCandidate(store[i]) ) => IsReported(store[i])

\* C5: after any sequence of save_change calls the store holds at most one row
\* per change_id; after a save the row of that id is the saved findings alone
\* (a later overlap query counts no key of an earlier snapshot), the other
\* rows are as before, and saving the same findings again changes nothing
C5_Upsert ==
    /\ \A i, j \in 1..Len(store) : store[i].change_id = store[j].change_id => i = j
    /\ fn_in.fn = "save_change" =>
          LET cid  == fn_in.change_id
              f    == fn_in.findings
              mine == {i \in 1..Len(store) : store[i].change_id = cid}
              risk_keys == IF "object_risks" \in DOMAIN f
                           THEN {f.object_risks[i].normalized_key :
                                    i \in 1..Len(f.object_risks)} ELSE {}
              obj_keys == IF "objects" \in DOMAIN f
                          THEN {f.objects[i].normalized_key : i \in 1..Len(f.objects)}
                          ELSE {}
              saved == IF risk_keys # {} THEN risk_keys ELSE obj_keys
          IN  /\ Cardinality(mine) = 1
              /\ \A i \in mine :
                    /\ store[i].findings_json = [valid |-> TRUE, doc |-> f]
                    /\ store[i].generated_at =
                           IF "generated_at" \in DOMAIN f THEN f.generated_at
                           ELSE [kind |-> "null"]
              /\ rows_without(store, cid) = rows_without(fn_in.before, cid)
              /\ \A q \in StoreQueries :
                    LET res == find_overlaps(store, now, "CHG-0", q, MaxDay + 1)
                    IN  \A j \in 1..Len(res) :
                            res[j].other_change_id = cid =>
                                \A k \in 1..Len(res[j].shared_objects) :
                                    res[j].shared_objects[k] \in saved
              /\ save_change(store, cid, f) = store

\* a save replaced an earlier, different snapshot of the same id that held a
\* key the new one lacks, next to the row of another id
C5_Witness ==
    /\ fn_in.fn = "save_change"
    /\ Len(fn_in.before) = 2
    /\ \E i \in 1..Len(fn_in.before) :
          /\ fn_in.before[i].change_id = fn_in.change_id
          /\ fn_in.before[i].findings_json.doc # fn_in.findings
          /\ O_ZB.normalized_key \in StoredKeys(fn_in.before[i])
    /\ \E i \in 1..Len(store) :
          /\ store[i].change_id = fn_in.change_id
          /\ O_ZB.normalized_key \notin StoredKeys(store[i])

-----------------------------------------------------------------------------
(* find_overlaps applied to stores of any content, as the database file may
   hold them: rows of other writers and records that are no findings *)

MaxStored == 3

\* what a row holds beside its change_id: in the window with two keys, in
\* the window with one key, older than the window, no JSON, JSON without the
\* fields, and an object_risks list holding a number
RowBodies ==
    { [generated_at  |-> isoformat(MaxDay),
       findings_json |-> json_dumps([object_risks |-> <<risk_of(O_ZA), risk_of(O_ZB)>>])],
      [generated_at  |-> isoformat(MaxDay),
       findings_json |-> json_dumps([object_risks |-> <<risk_of(O_ZB)>>])],
      [generated_at  |-> isoformat(0),
       findings_json |-> json_dumps([object_risks |-> <<risk_of(O_ZA), risk_of(O_ZB)>>])],
      [generated_at  |-> isoformat(MaxDay),
       findings_json |-> [valid |-> FALSE]],
      [generated_at  |-> isoformat(MaxDay),
       findings_json |-> json_dumps([navica_version |-> "0.1"])],
      [generated_at  |-> isoformat(MaxDay),
       findings_json |-> json_dumps([object_risks |->
                                        <<risk_of(O_ZA), [is_dict |-> FALSE]>>])] }

\* rows with the ids CHG-1, CHG-2, ... in rowid order
rows_of(bodies) ==
    [i \in 1..Len(bodies) |-> [change_id |-> StoredIds[i]] @@ bodies[i]]

\* the keys K000, K001, ...
BigKey(i) ==
    LET d == <<"0", "1", "2", "3", "4", "5", "6", "7", "8", "9">>
    IN  <<"K", d[(i \div 100) + 1], d[((i \div 10) % 10) + 1], d[(i % 10) + 1]>>

\* a change of one object more than the cap on shared_objects
BigChange == [i \in 1..(SharedObjectsCap + 1) |-> [normalized_key |-> BigKey(i)]]

\* two rows more than the cap on records: row i shares 1 + (i mod 3) keys of
\* BigChange, the last row shares them all
BigStore ==
    rows_of([i \in 1..(OverlapsCap + 2) |->
        [generated_at  |-> isoformat(MaxDay),
         findings_json |-> json_dumps(
             [object_risks |->
                 IF i = OverlapsCap + 2
                 THEN [k \in 1..(SharedObjectsCap + 1) |-> risk_of(BigChange[k])]
                 ELSE [k \in 1..(1 + (i % 3)) |-> risk_of(BigChange[10 * k + i])]])]])

FindInputs ==
    {[rows |-> rows_of(b), today |-> MaxDay, change_id |-> cid,
      objects |-> objs, window_days |-> 1] :
        b \in SeqsUpTo(RowBodies, MaxStored),
        cid \in {"CHG-1", "CHG-0"},
        objs \in {<<O_ZA, O_ZB>>, <<O_ZB, O_YC>>}}
    \cup {[rows |-> BigStore, today |-> MaxDay, change_id |-> "CHG-0",
           objects |-> BigChange, window_days |-> 1]}

InitFind ==
    /\ SysIdle
    /\ fn_in \in FindInputs
    /\ fn_out = NotCalled

CallFindOverlapsOn ==
    /\ ~fn_out.done
    /\ fn_out' = [done |-> TRUE,
                  value |-> find_overlaps(fn_in.rows, fn_in.today, fn_in.change_id,
                                          fn_in.objects, fn_in.window_days)]
    /\ UNCHANGED <<SysVars, fn_in>>

NextFind == CallFindOverlapsOn

SpecFind == InitFind /\ [][NextFind]_vars

\* a stored record that is no findings document: no JSON, JSON without
\* object_risks and objects, or an object_risks entry that is no JSON object
Malformed(row) ==
    \/ ~row.findings_json.valid
    \/ /\ "object_risks" \notin DOMAIN row.findings_json.doc
       /\ "objects" \notin DOMAIN row.findings_json.doc
    \/ /\ "object_risks" \in DOMAIN row.findings_json.doc
       /\ \E i \in 1..Len(row.findings_json.doc.object_risks) :
              ~is_dict(row.findings_json.doc.object_risks[i])

WellFormedRows(rows) ==
    LET idx == {i \in 1..Len(rows) : ~Malformed(rows[i])}
    IN  [j \in 1..Cardinality(idx) |-> rows[NthOf(idx, j)]]

\* C13: a malformed stored record contributes no OverlapRecord and does not
\* abort the query: the result is the result over the store without the
\* malformed records, wherever they stand among the rows
C13_MalformedSkipped ==
    fn_out.done =>
        /\ \A i \in 1..Len(fn_in.rows) :
               Malformed(fn_in.rows[i]) =>
                   \A j \in 1..Len(fn_out.value) :
                       fn_out.value[j].other_change_id # fn_in.rows[i].change_id
        /\ fn_out.value = find_overlaps(WellFormedRows(fn_in.rows), fn_in.today,
                                        fn_in.change_id, fn_in.objects,
                                        fn_in.window_days)

\* a record that is no JSON stood between two sharing records, both returned
C13_Witness ==
    /\ fn_out.done
    /\ Len(fn_in.rows) = 3
    /\ ~fn_in.rows[2].findings_json.valid
    /\ Len(fn_out.value) = 2
    /\ {fn_out.value[j].other_change_id : j \in 1..2} = {"CHG-1", "CHG-3"}

\* indices of the stored rows that qualify for the query: of another change,
\* well-formed, inside the window and sharing a key
Qualifying ==
    {i \in 1..Len(fn_in.rows) :
        /\ ~Malformed(fn_in.rows[i])
        /\ IsCandidate(fn_in.rows[i])
        /\ fn_in.rows[i].generated_at.kind = "iso" =>
               fn_in.rows[i].generated_at.day >= fn_in.today - fn_in.window_days}

SharedCount(i) == Cardinality(QueryKeys \cap StoredKeys(fn_in.rows[i]))

\* C15: the list find_overlaps returns is ordered by shared_object_count
\* non-increasing and holds the min(25, qualifying) qualifying changes with
\* the largest counts (no omitted one shares strictly more than a returned
\* one); each record's shared_objects is sorted ascending, holds the first
\* min(200, count) shared keys, and shared_object_count is the size of the
\* whole intersection
C15_SortedAndCapped ==
    fn_out.done =>
        LET res == fn_out.value
            Ret == {i \in Qualifying :
                       \E j \in 1..Len(res) : res[j].other_change_id = fn_in.rows[i].change_id}
        IN  /\ \A j \in 1..(Len(res) - 1) :
                   res[j].shared_object_count >= res[j + 1].shared_object_count
            /\ Len(res) <= 25
            /\ Len(res) = IF Cardinality(Qualifying) < 25
                          THEN Cardinality(Qualifying) ELSE 25
            /\ Cardinality(Ret) = Len(res)
            /\ \A i \in Qualifying \ Ret :
                   \A j \in 1..Len(res) : SharedCount(i) <= res[j].shared_object_count
            /\ \A i \in Ret : \A j \in 1..Len(res) :
                   res[j].other_change_id = fn_in.rows[i].change_id =>
                       LET so == res[j].shared_objects
                       IN  /\ res[j].shared_object_count = SharedCount(i)
                           /\ Len(so) <= 200
                           /\ Len(so) = IF SharedCount(i) < 200 THEN SharedCount(i) ELSE 200
                           /\ \A k \in 1..Len(so) :
                                  so[k] \in QueryKeys \cap StoredKeys(fn_in.rows[i])
                           /\ \A k \in 1..(Len(so) - 1) : str_less(so[k], so[k + 1])

\* 27 changes qualify and one shares 201 keys: 25 records are returned, the
\* first with count 201 and 200 keys, and the two left out share one key
C15_Witness ==
    /\ fn_out.done
    /\ Cardinality(Qualifying) = 27
    /\ Len(fn_out.value) = 25
    /\ fn_out.value[1].shared_object_count = 201
    /\ Len(fn_out.value[1].shared_objects) = 200
    /\ fn_out.value[25].shared_object_count = 1

-----------------------------------------------------------------------------
(* The points and the bonuses of the scorer *)

\* the number of stored changes of another id, saved inside the window, whose
\* object set holds the key nk
TrueOverlapCount(nk) ==
    Cardinality({i \in 1..Len(fn_in.rows) :
        /\ fn_in.rows[i].change_id # fn_in.change_id
        /\ fn_in.rows[i].generated_at.day >= 0 - 30
        /\ nk \in StoredKeys(fn_in.rows[i])})

\* the object_risks entry of the result for the key nk
RiskOf(nk) ==
    fn_out.value.object_risks[
        CHOOSE j \in 1..Len(fn_out.value.object_risks) :
            fn_out.value.object_risks[j].normalized_key = nk]

\* nk is in top_objects of an impacted app with criticality >= 4
InCriticalApp(nk) ==
    \E a \in 1..Len(fn_out.value.impacted_apps) :
        /\ "criticality" \in DOMAIN fn_out.value.impacted_apps[a]
        /\ fn_out.value.impacted_apps[a].criticality >= 4
        /\ \E j \in 1..Len(fn_out.value.impacted_apps[a].top_objects) :
               fn_out.value.impacted_apps[a].top_objects[j] = nk

\* +2, +5, +9 for one, two, three or more sharing changes
OverlapBonus(n) == IF n = 0 THEN 0 ELSE IF n = 1 THEN 2 ELSE IF n = 2 THEN 5 ELSE 9

\* base points, times 1.3 for a critical app, plus the bonus for n sharing
\* changes, plus 2 for the wide-impact hint, in this order
ExpectedPoints(o, n) ==
    LET base  == BASE_POINTS(upper(Or(o.obj_type, <<>>)))
        p1    == IF InCriticalApp(o.normalized_key)
                 THEN FMulInt(F_1_3, base) ELSE FFromInt(base)
        p2    == IF n = 0 THEN p1 ELSE FAdd(p1, FFromInt(OverlapBonus(n)))
        name  == upper(o.obj_name)
    IN  IF Len(fn_out.value.impacted_apps) > 3 /\ name # <<>> /\ name[1] \in {"Z", "Y"}
        THEN FAdd(p2, FFromInt(2)) ELSE p2

\* C16: for every object of the change, the number n of sharing changes the
\* scorer uses (reported as shared_across_changes(n), absent for n = 0) is
\* the number of stored changes of another id inside the window whose object
\* set holds the object's key, and risk_points carries the bonus of that
\* number: 0, +2, +5, +9 for 0, 1, 2, 3 or more
C16_BonusCountsAllSharingChanges ==
    (fn_out.done /\ fn_in.fn = "score_change") =>
        \A i \in 1..Len(fn_in.objects) :
            LET o  == fn_in.objects[i]
                n  == TrueOverlapCount(o.normalized_key)
                rs == RiskOf(o.normalized_key).reasons
            IN  /\ overlap_count(fn_out.value.overlaps, o.normalized_key) = n
                /\ n = 0 => \A k \in 1..Len(rs) :
                                "shared_across_changes" \notin DOMAIN rs[k]
                /\ n > 0 => \E k \in 1..Len(rs) :
                                /\ "shared_across_changes" \in DOMAIN rs[k]
                                /\ rs[k].shared_across_changes = n
                /\ RiskOf(o.normalized_key).risk_points = py_round(ExpectedPoints(o, n))

\* the type table as the specification gives it
BasePointsOfType(otype) ==
    CASE otype = PROG -> 6
      [] otype = CMOD -> 8
      [] otype = TABL -> 10
      [] otype = DTEL -> 5
      [] OTHER -> 3

\* C17: for every object risk_points = round(p) >= 0, p being the base
\* points of the type (unknown type 3, PROG 6, CMOD 8), times 1.3 exactly
\* when the key is in top_objects of an impacted app with criticality >= 4,
\* then plus the overlap bonus of the reported overlaps, then plus 2 when
\* more than 3 apps are impacted and the name starts with Z or Y; with no
\* critical app, no overlap and at most 3 impacted apps risk_points is the
\* base points
C17_PointsOrder ==
    (fn_out.done /\ fn_in.fn = "score_change") =>
        \A i \in 1..Len(fn_in.objects) :
            LET o    == fn_in.objects[i]
                n    == overlap_count(fn_out.value.overlaps, o.normalized_key)
                rp   == RiskOf(o.normalized_key).risk_points
                base == BasePointsOfType(o.obj_type)
                apps == fn_out.value.impacted_apps
            IN  /\ rp = py_round(ExpectedPoints(o, n))
                /\ rp >= 0
                /\ BASE_POINTS(o.obj_type) = base
                /\ (/\ \A a \in 1..Len(apps) : Get(apps[a], "criticality", 0) < 4
                    /\ fn_out.value.overlaps = <<>>
                    /\ Len(apps) <= 3) => rp = base
                /\ (~InCriticalApp(o.normalized_key) /\ Len(apps) <= 3)
                       => rp = base + OverlapBonus(n)

\* a PROG of a critical app shared by two stored changes, with more than 3
\* apps impacted: round(6 * 1.3 + 5 + 2) = 15, where scaling the bonus too
\* would give round((6 + 5) * 1.3 + 2) = 16
C17_Witness ==
    /\ fn_out.done /\ fn_in.fn = "score_change"
    /\ Len(fn_out.value.impacted_apps) > 3
    /\ InCriticalApp(O_ZA.normalized_key)
    /\ \E i \in 1..Len(fn_in.objects) : fn_in.objects[i] = O_ZA
    /\ overlap_count(fn_out.value.overlaps, O_ZA.normalized_key) = 2
    /\ RiskOf(O_ZA.normalized_key).risk_points = 15

\* C20: score_change of a non-empty object list yields risk_score >= 38, a
\* risk_score of 0 arises only for the empty list, and the findings of a
\* non-empty list, as save_change stores them, have 38 <= risk_score <= 100
\* with the level 'Low' only for the scores 38 and 39
C20_ScoreFloor ==
    (fn_out.done /\ fn_in.fn = "score_change") =>
        LET score == fn_out.value.summary.risk_score
            saved == save_change(fn_in.rows, fn_in.change_id, fn_out.value)
            doc   == saved[Len(saved)].findings_json.doc
        IN  /\ fn_in.objects # <<>> => score >= 38
            /\ score = 0 => fn_in.objects = <<>>
            /\ fn_in.objects = <<>> => score = 0
            /\ fn_in.objects # <<>> =>
                   /\ doc.summary.risk_score \in 38..100
                   /\ doc.summary.risk_level = "Low"
                          => doc.summary.risk_score \in {38, 39}
            /\ \A i \in 1..Len(fn_in.rows) :
                   LET old == fn_in.rows[i].findings_json.doc.summary
                   IN  /\ old.risk_score \in 38..100
                       /\ old.risk_level = "Low" => old.risk_score \in {38, 39}

\* two objects of 3 raw points each, nothing added: 3 * 12.5 = 37.5 is
\* rounded to 38, level Low
C20_Witness ==
    /\ fn_out.done /\ fn_in.fn = "score_change"
    /\ Len(fn_in.objects) = 2
    /\ \A i \in 1..2 : RiskOf(fn_in.objects[i].normalized_key).risk_points = 3
    /\ fn_out.value.summary.risk_score = 38
    /\ fn_out.value.summary.risk_level = "Low"

-----------------------------------------------------------------------------
(* The application: Analyze clicks and the passing of days *)

PasteZA   == <<"R","3","T","R"," ","P","R","O","G"," ","Z","A">>
PasteZAZB == join_lines(<< <<"r","3","t","r"," ","p","r","o","g"," ","z","a">>,
                           <<"R","3","T","R"," ","T","A","B","L"," ","Z","B">> >>)
PasteYC   == <<"C","M","O","D"," ","Y","C">>

\* what the user entered before clicking Analyze
UserInputs ==
    { [file_csv |-> [has |-> FALSE], file_json |-> [has |-> FALSE], paste |-> PasteZA],
      [file_csv |-> [has |-> FALSE], file_json |-> [has |-> FALSE], paste |-> PasteZAZB],
      [file_csv |-> [has |-> FALSE], file_json |-> [has |-> FALSE], paste |-> PasteYC],
      [file_csv |-> [has |-> FALSE], file_json |-> [has |-> FALSE], paste |-> <<" ">>],
      [file_csv |-> [has |-> FALSE],
       file_json |-> [has |-> TRUE,
                      json |-> [kind |-> "list",
                                items |-> <<[is_dict |-> TRUE,
                                             fields |-> [obj_type |-> PROG,
                                                         obj_name |-> ZA]]>>]],
       paste |-> <<>>] }

SysInit ==
    /\ SysIdle
    /\ fn_in = [fn |-> "none"]
    /\ fn_out = NotCalled

\* the user sets the widgets and clicks Analyze: _analyze runs to its end
Analyze(cid, inp, days) ==
    /\ runs < MaxRuns
    /\ \E w \in {[change_id |-> cid, overlap_days |-> days] @@ inp} :
       \E r \in {analyze(w, store, now, latest_findings, views)} :
           /\ ui' = w
           /\ store' = r.store
           /\ latest_findings' = r.latest_findings
           /\ views' = r.views
           /\ status' = r.status
    /\ runs' = runs + 1
    /\ UNCHANGED <<now, pcs, fn_in, fn_out>>

Next ==
    \/ \E cid \in ChangeIds, inp \in UserInputs, days \in WindowDays :
           Analyze(cid, inp, days)
    \/ Tick

Spec == SysInit /\ [][Next]_vars

\* an Analyze step that loaded a non-empty object set
ScoringRun ==
    /\ runs' = runs + 1
    /\ load_objects(ui').ok
    /\ load_objects(ui').value # <<>>

\* the objects the step's analysis of change ui'.change_id shares with a row
SharedWith(row) == keys_of(load_objects(ui').value) \cap StoredKeys(row)

\* row was saved inside the overlap window of the step's analysis, and the
\* caps of find_overlaps (25 records, 200 keys per record) are not reached
InWindow(row) ==
    /\ row.generated_at.day >= now - ui'.overlap_days
    /\ Len(store) <= OverlapsCap
    /\ Cardinality(SharedWith(row)) <= SharedObjectsCap

\* the findings of the step report `row` with all the shared keys
ReportsRow(row) ==
    \E j \in 1..Len(latest_findings'.data.overlaps) :
        LET o == latest_findings'.data.overlaps[j]
        IN  /\ o.other_change_id = row.change_id
            /\ o.shared_object_count = Cardinality(SharedWith(row))
            /\ SharedWith(row) = {o.shared_objects[k] : k \in 1..Len(o.shared_objects)}

\* every record of the step's findings is for a distinct stored other change
RecordsAreStoredChanges ==
    LET ov == latest_findings'.data.overlaps
    IN  /\ \A j \in 1..Len(ov) :
               /\ ov[j].other_change_id # ui'.change_id
               /\ \E i \in 1..Len(store) : store[i].change_id = ov[j].other_change_id
        /\ \A j, k \in 1..Len(ov) :
               ov[j].other_change_id = ov[k].other_change_id => j = k

\* C2 as stated: if changes A and B (different ids) share object X, an
\* analysis of A run after B's findings were saved returns a record with
\* other_change_id = B, X among shared_objects and shared_object_count the
\* number of shared keys (and so for B after A; CHG-2 after CHG-1 with one
\* common object gets exactly one record, for CHG-1, with count 1)
C2_OverlapReported ==
    [][ScoringRun =>
           /\ RecordsAreStoredChanges
           /\ \A i \in 1..Len(store) :
                  (store[i].change_id # ui'.change_id /\ SharedWith(store[i]) # {})
                      => ReportsRow(store[i])]_vars

\* C2 amended: the same, provided B's saved generated_at is not older than
\* the overlap window at the time A is analysed
C2_OverlapReportedInWindow ==
    [][ScoringRun =>
           /\ RecordsAreStoredChanges
           /\ \A i \in 1..Len(store) :
                  ( /\ store[i].change_id # ui'.change_id
                    /\ SharedWith(store[i]) # {}
                    /\ InWindow(store[i]) ) => ReportsRow(store[i])]_vars

\* CHG-1 was analysed and saved, then CHG-2 with one common object: its
\* findings hold exactly one record, for CHG-1, with count 1
C2_Witness ==
    /\ latest_findings.has
    /\ latest_findings.data.change_id = "CHG-2"
    /\ Len(store) = 2
    /\ store[1].change_id = "CHG-1"
    /\ Len(store[1].findings_json.doc.object_risks) = 2
    /\ latest_findings.data.overlaps =
           << [other_change_id     |-> "CHG-1",
               shared_object_count |-> 1,
               shared_objects      |-> <<O_ZA.normalized_key>>] >>

\* C6: an Analyze run that ends in the error status has saved nothing and
\* has updated neither latest_findings nor any result view
C6_ErrorLeavesNoTrace ==
    [][(runs' = runs + 1 /\ status'.kind = "error") =>
           /\ store' = store
           /\ latest_findings' = latest_findings
           /\ views' = views]_vars

\* C7: an Analyze run reports "No objects found" exactly when the loaded
\* object set is empty, and such a run leaves the History Store and
\* latest_findings as they were
C7_NoObjectsNoRun ==
    [][runs' = runs + 1 =>
           /\ status'.kind = "no_objects" <=>
                  (load_objects(ui').ok /\ load_objects(ui').value = <<>>)
           /\ status'.kind = "no_objects" =>
                  /\ store' = store
                  /\ latest_findings' = latest_findings
                  /\ views' = views]_vars

\* an empty input was analysed after a run that had saved findings
C7_Witness ==
    /\ status.kind = "no_objects"
    /\ load_objects(ui).ok /\ load_objects(ui).value = <<>>
    /\ store # <<>>
    /\ latest_findings.has
    /\ runs >= 2

\* the overlaps of a findings document name no change `cid` and no record
\* without shared objects
NoSelfNoEmpty(cid, overlaps) ==
    \A j \in 1..Len(overlaps) :
        /\ overlaps[j].other_change_id # cid
        /\ overlaps[j].shared_object_count >= 1
        /\ overlaps[j].shared_objects # <<>>

\* C14: after any sequence of analyses and saves, the OverlapRecords of a run
\* for change id C (the latest run's and every saved one's) never name C
\* itself, also when C was saved before with overlapping objects, and never
\* hold a record with zero shared objects
C14_NoSelfOverlap ==
    /\ latest_findings.has =>
           NoSelfNoEmpty(latest_findings.data.change_id, latest_findings.data.overlaps)
    /\ \A i \in 1..Len(store) :
           NoSelfNoEmpty(store[i].change_id, store[i].findings_json.doc.overlaps)

\* CHG-1 was analysed, then CHG-2 (whose snapshot names CHG-1), then CHG-1
\* again with a shared object: its findings name CHG-2 only
C14_Witness ==
    /\ latest_findings.has
    /\ latest_findings.data.change_id = "CHG-1"
    /\ Len(store) = 2
    /\ store[1].change_id = "CHG-2"
    /\ Len(store[1].findings_json.doc.overlaps) = 1
    /\ store[1].findings_json.doc.overlaps[1].other_change_id = "CHG-1"
    /\ store[2].change_id = "CHG-1"
    /\ Len(latest_findings.data.overlaps) = 1
    /\ latest_findings.data.overlaps[1].other_change_id = "CHG-2"

\* C18: an Analyze run for change id C changes at most C's record: every
\* row of another change id is in the store after the run as it was before,
\* findings and overlaps included, and no row of another id appears; a run
\* that scores saves its findings under C, with the overlaps computed from
\* the store as it was before the save
C18_OnlyOwnRecordChanges ==
    [][runs' = runs + 1 =>
           /\ \A i \in 1..Len(store) :
                  store[i].change_id # ui'.change_id =>
                      \E j \in 1..Len(store') : store'[j] = store[i]
           /\ \A j \in 1..Len(store') :
                  store'[j].change_id # ui'.change_id =>
                      \E i \in 1..Len(store) : store[i] = store'[j]
           /\ ScoringRun =>
                  /\ \E j \in 1..Len(store') :
                         /\ store'[j].change_id = ui'.change_id
                         /\ store'[j].findings_json = json_dumps(latest_findings'.data)
                  /\ latest_findings'.data.overlaps =
                         find_overlaps(store, now, ui'.change_id,
                                       load_objects(ui').value,
                                       IF ui'.overlap_days = 0 THEN 30
                                       ELSE ui'.overlap_days)]_vars

\* CHG-2 was analysed before CHG-1 and shares an object with it: the stored
\* findings of CHG-2 list no overlap, those of CHG-1 list CHG-2
C18_Witness ==
    /\ Len(store) = 2
    /\ store[1].change_id = "CHG-2"
    /\ store[1].findings_json.doc.overlaps = <<>>
    /\ store[2].change_id = "CHG-1"
    /\ Len(store[2].findings_json.doc.overlaps) = 1
    /\ store[2].findings_json.doc.overlaps[1].other_change_id = "CHG-2"
    /\ ui.change_id = "CHG-1"

-----------------------------------------------------------------------------
(* Two documents of the application on one history file: each has its own
   widgets and its own NavicaDB connection, and an Analyze run reaches the
   file twice, in find_overlaps (inside score_change) and in save_change *)

Sessions == {"A", "B"}

Other(s) == IF s = "A" THEN "B" ELSE "A"

\* the history file may hold the record of an earlier analysis of CHG-1,
\* saved on day 0
ConcStores ==
    { <<>>,
      analyze([change_id |-> "CHG-1", overlap_days |-> 1,
               file_csv |-> [has |-> FALSE], file_json |-> [has |-> FALSE],
               paste |-> PasteYC], <<>>, 0, NoFindings, InitialViews).store }

\* a document whose user has set the widgets and clicked Analyze
Clicked(w) ==
    [pc |-> "clicked", ui |-> w, latest_findings |-> NoFindings,
     status |-> [kind |-> "ready"], views |-> InitialViews,
     read |-> <<>>, read_day |-> 0]

InitConc ==
    /\ store \in ConcStores
    /\ now = 0
    /\ latest_findings = NoFindings
    /\ status = [kind |-> "ready"]
    /\ views = InitialViews
    /\ runs = 0
    /\ ui = InitialUi
    /\ pcs \in [Sessions ->
                   {Clicked([change_id |-> c, overlap_days |-> d] @@ inp) :
                       c \in ChangeIds, d \in WindowDays, inp \in UserInputs}]
    /\ fn_in = [fn |-> "none"]
    /\ fn_out = NotCalled

\* _analyze of document s up to `latest_findings["data"] = findings`: the
\* run ends here when loading raises or finds no object, else it has read
\* the store (kept in `read`) and goes on to save
ConcScore(s) ==
    /\ pcs[s].pc = "clicked"
    /\ \E loaded \in {load_objects(pcs[s].ui)} :
           IF ~loaded.ok \/ no_objects(loaded.value)
           THEN \E r \in {analyze_loaded(loaded, pcs[s].ui, store, now,
                                         pcs[s].latest_findings, pcs[s].views)} :
                    pcs' = [pcs EXCEPT ![s] =
                               [pc |-> "done", ui |-> pcs[s].ui,
                                latest_findings |-> r.latest_findings,
                                status |-> r.status, views |-> r.views,
                                read |-> <<>>, read_day |-> now]]
           ELSE \E f \in {score_change(pcs[s].ui.change_id, loaded.value,
                              map_objects_to_apps(loaded.value, AppCatalog),
                              IF pcs[s].ui.overlap_days = 0 THEN 30
                              ELSE pcs[s].ui.overlap_days,
                              store, now)} :
                    pcs' = [pcs EXCEPT ![s] =
                               [pc |-> "scored", ui |-> pcs[s].ui,
                                latest_findings |-> [has |-> TRUE, data |-> f],
                                status |-> pcs[s].status, views |-> pcs[s].views,
                                read |-> store, read_day |-> now]]
    /\ UNCHANGED <<store, now, latest_findings, status, views, runs, ui, fn_in, fn_out>>

\* _analyze of document s from db.save_change on
ConcSave(s) ==
    /\ pcs[s].pc = "scored"
    /\ \E r \in {analyze_scored(load_objects(pcs[s].ui).value,
                                pcs[s].latest_findings.data, store)} :
           /\ store' = r.store
           /\ pcs' = [pcs EXCEPT ![s] =
                         [pc |-> "done", ui |-> pcs[s].ui,
                          latest_findings |-> r.latest_findings,
                          status |-> r.status, views |-> r.views,
                          read |-> pcs[s].read, read_day |-> pcs[s].read_day]]
    /\ UNCHANGED <<now, latest_findings, status, views, runs, ui, fn_in, fn_out>>

NextConc ==
    \/ \E s \in Sessions : ConcScore(s)
    \/ \E s \in Sessions : ConcSave(s)
    \/ Tick

SpecConc == InitConc /\ [][NextConc]_vars

\* the keys of the objects document s analyses
ConcKeys(s) ==
    IF load_objects(pcs[s].ui).ok THEN keys_of(load_objects(pcs[s].ui).value) ELSE {}

\* both runs are complete, for different change ids sharing an object
BothRunsDone ==
    /\ \A s \in Sessions : pcs[s].pc = "done"
    /\ pcs["A"].ui.change_id # pcs["B"].ui.change_id
    /\ ConcKeys("A") \cap ConcKeys("B") # {}

\* the store holds one record of the change of s, equal to the findings of
\* the run of s
OwnRecordStored(s) ==
    /\ Cardinality({i \in 1..Len(store) :
                        store[i].change_id = pcs[s].ui.change_id}) = 1
    /\ \E i \in 1..Len(store) :
           /\ store[i].change_id = pcs[s].ui.change_id
           /\ store[i].findings_json = json_dumps(pcs[s].latest_findings.data)
           /\ store[i].generated_at = pcs[s].latest_findings.data.generated_at

\* the findings of s list the change of the other document
ListsOther(s) ==
    \E j \in 1..Len(pcs[s].latest_findings.data.overlaps) :
        pcs[s].latest_findings.data.overlaps[j].other_change_id
            = pcs[Other(s)].ui.change_id

\* C19: after two interleaved Analyze runs for different change ids that
\* share an object, the store holds both records, each equal to its own
\* run's findings, and at least one of the two findings lists the other
\* change as an overlap
C19_OneListsTheOther ==
    BothRunsDone =>
        /\ \A s \in Sessions : OwnRecordStored(s)
        /\ ListsOther("A") \/ ListsOther("B")

\* the rows the run of s read in find_overlaps that are records of the
\* other change, share an object with the change of s and were saved inside
\* the overlap window of that read
ReadOfOther(s) ==
    {i \in 1..Len(pcs[s].read) :
        /\ pcs[s].read[i].change_id = pcs[Other(s)].ui.change_id
        /\ ConcKeys(s) \cap StoredKeys(pcs[s].read[i]) # {}
        /\ pcs[s].read[i].generated_at.day
               >= pcs[s].read_day - (IF pcs[s].ui.overlap_days = 0 THEN 30
                                     ELSE pcs[s].ui.overlap_days)}

\* C19 amended: the store holds both records, each equal to its own run's
\* findings; a run's findings list the other change only if the store it
\* read in find_overlaps held a record of the other change sharing an object
\* and saved inside the overlap window of that read, and they do list it
\* then, as long as the store read held no more than 25 records (so neither
\* lists the other when both reads precede both saves and no earlier record
\* inside the window exists)
C19_ListsWhatItRead ==
    BothRunsDone =>
        /\ \A s \in Sessions : OwnRecordStored(s)
        /\ \A s \in Sessions :
               /\ ListsOther(s) => ReadOfOther(s) # {}
               /\ (ReadOfOther(s) # {} /\ Len(pcs[s].read) <= OverlapsCap)
                      => ListsOther(s)

\* both runs read the store before either saved: both records are stored and
\* neither lists the other
C19_Witness ==
    /\ BothRunsDone
    /\ \A s \in Sessions : OwnRecordStored(s)
    /\ ~ListsOther("A") /\ ~ListsOther("B")
    /\ Len(store) = 2

=============================================================================
